---- MODULE Spec2Model ----
(***************************************************************************)
(* Model of the agent service of smarvium/genesis:                         *)
(*   - MemoryService (agents/agent_service/lib/memory_service.py): the     *)
(*     tier-1 Redis store with its two sorted-set indices and the          *)
(*     in-process fallback map, with every Redis call able to raise;       *)
(*   - AgentManager.execute_agent / _get_agent_config                      *)
(*     (agents/agent_service/lib/agent_manager.py): archetype dispatch and *)
(*     persona configuration.                                              *)
(* Strings whose characters matter (memory content, search queries, agent  *)
(* ids, names) are sequences of one-character strings.                     *)
(***************************************************************************)
EXTENDS Integers, Sequences, FiniteSets, TLC

\* ------------------------------------------------------------------ bounds
MaxMem == 2
MaxTime == 1
MaxLimit == 2
MaxFailures == 1
MaxWords == 3
MaxIds == 8
MaxAgents == 1

\* ------------------------------------------------------- input domains
Agents == {"a1", "a2"}
MemIds == 1..MaxMem
Limits == 0..MaxLimit
Importances == {2, 9}
Contents == { <<"A", "b">>, <<"b">> }
Queries == { <<>>, <<"a">>, <<"B">> }
MemoryTypes == {"interaction"}
NoneVal == "None"
EmptyDict == "{}"
Metadatas == {NoneVal, EmptyDict}
UserIds == {NoneVal}
Expirations == {0, 60}

\* ------------------------------------------------------ Python helpers
Lowers == <<"a", "b", "c", "d", "e", "f", "g", "h", "i", "j", "k", "l", "m",
            "n", "o", "p", "q", "r", "s", "t", "u", "v", "w", "x", "y", "z">>
Uppers == <<"A", "B", "C", "D", "E", "F", "G", "H", "I", "J", "K", "L", "M",
            "N", "O", "P", "Q", "R", "S", "T", "U", "V", "W", "X", "Y", "Z">>

\* str.lower() on one character
LowerChar(c) ==
  IF \E i \in 1..26 : Uppers[i] = c
  THEN Lowers[CHOOSE i \in 1..26 : Uppers[i] = c]
  ELSE c

\* str.upper() on one character
UpperChar(c) ==
  IF \E i \in 1..26 : Lowers[i] = c
  THEN Uppers[CHOOSE i \in 1..26 : Lowers[i] = c]
  ELSE c

\* str.lower()
Lower(s) == [i \in 1..Len(s) |-> LowerChar(s[i])]

\* `sub in s` on Python strings
Contains(s, sub) ==
  \E i \in 0..(Len(s) - Len(sub)) :
    \A j \in 1..Len(sub) : s[i + j] = sub[j]

\* s.startswith(prefix)
StartsWith(s, prefix) ==
  /\ Len(prefix) <= Len(s)
  /\ \A j \in 1..Len(prefix) : s[j] = prefix[j]

\* s[:limit] on a Python list
SliceTo(s, limit) ==
  LET stop == IF limit < 0
              THEN (IF Len(s) + limit < 0 THEN 0 ELSE Len(s) + limit)
              ELSE (IF limit > Len(s) THEN Len(s) ELSE limit)
  IN  SubSeq(s, 1, stop)

Reverse(s) == [i \in 1..Len(s) |-> s[Len(s) + 1 - i]]

\* json.dumps / json.loads of a memory dict
JsonDumps(memory) == <<"json", memory>>
JsonLoads(text) == text[2]

\* comparison of Python tuples of numbers (the sort keys)
RECURSIVE TupleLess(_, _)
TupleLess(x, y) ==
  IF x = <<>> THEN y # <<>>
  ELSE IF y = <<>> THEN FALSE
  ELSE IF x[1] # y[1] THEN x[1] < y[1]
  ELSE TupleLess(Tail(x), Tail(y))

\* list.sort(key=..., reverse=True) on a list of [key, val] pairs: the sort
\* is stable, so elements with equal keys keep the order they had
RECURSIVE SortDesc(_)
SortDesc(s) ==
  IF s = <<>> THEN <<>>
  ELSE LET i == CHOOSE k \in 1..Len(s) :
                  /\ \A j \in 1..Len(s) : ~TupleLess(s[k].key, s[j].key)
                  /\ \A j \in 1..(k - 1) : TupleLess(s[j].key, s[k].key)
           rest == [j \in 1..(Len(s) - 1) |-> IF j < i THEN s[j] ELSE s[j + 1]]
       IN  <<s[i]>> \o SortDesc(rest)

Undecorate(s) == [i \in 1..Len(s) |-> s[i].val]

\* agent_memories.sort(key=lambda x: x.get("created_at", 0), reverse=True)
SortByCreatedAt(s) ==
  Undecorate(SortDesc([i \in 1..Len(s) |->
                         [key |-> <<s[i].created_at>>, val |-> s[i]]]))

\* agent_memories.sort(key=lambda x: x.get("importance", 0), reverse=True)
SortByImportance(s) ==
  Undecorate(SortDesc([i \in 1..Len(s) |->
                         [key |-> <<s[i].importance>>, val |-> s[i]]]))

\* the relevance sort without reverse=True: least important first
SortByRelevance_ascending(s, query) ==
  Undecorate(Reverse(SortDesc([i \in 1..Len(s) |->
     [key |-> <<IF Contains(Lower(s[i].content), query) THEN 1 ELSE 0,
                s[i].importance>>,
      val |-> s[i]]])))

\* results.sort(key=lambda x: (query in x["content"].lower(),
\*                             x["importance"]), reverse=True)
SortByRelevance(s, query) ==
  Undecorate(SortDesc([i \in 1..Len(s) |->
     [key |-> <<IF Contains(Lower(s[i].content), query) THEN 1 ELSE 0,
                s[i].importance>>,
      val |-> s[i]]]))

\* ------------------------------------------------- Redis sorted sets
\* A sorted set is a function member -> score; Redis orders by score and
\* then by member (the memory id, a uuid string; the model's integer order
\* stands for the lexicographic order of the uuids).
ZLess(z, x, y) == z[x] < z[y] \/ (z[x] = z[y] /\ x < y)

RECURSIVE ZAscending(_)
ZAscending(z) ==
  IF DOMAIN z = {} THEN <<>>
  ELSE LET m == CHOOSE x \in DOMAIN z : \A y \in DOMAIN z \ {x} : ZLess(z, x, y)
       IN  <<m>> \o ZAscending([k \in DOMAIN z \ {m} |-> z[k]])

\* the inclusive index range of ZRANGE / ZREVRANGE; negative indices count
\* from the end
RangeOf(s, start, stop) ==
  LET n  == Len(s)
      b0 == IF start < 0 THEN start + n ELSE start
      e0 == IF stop < 0 THEN stop + n ELSE stop
      b  == IF b0 < 0 THEN 0 ELSE b0
      e  == IF e0 >= n THEN n - 1 ELSE e0
  IN  IF b > e \/ b >= n THEN <<>> ELSE SubSeq(s, b + 1, e + 1)

ZRange(z, start, stop) == RangeOf(ZAscending(z), start, stop)
ZRevRange(z, start, stop) == RangeOf(Reverse(ZAscending(z)), start, stop)

\* ZADD, had it written the key anew instead of upserting the member
ZAdd_replacing_the_set(z, member, score) == [k \in {member} |-> score]

\* ZADD key {member: score}
ZAdd(z, member, score) ==
  [k \in DOMAIN z \cup {member} |-> IF k = member THEN score ELSE z[k]]

\* ZREM key member
ZRem(z, member) == [k \in DOMAIN z \ {member} |-> z[k]]

\* a sorted-set key that does not exist
EmptyZ == [k \in {} |-> 0]

\* SET key value: the value replaces the old one and any TTL is dropped
RSet(keys, k, text) ==
  [x \in DOMAIN keys \cup {k} |->
     IF x = k THEN [json |-> text, ttl |-> FALSE] ELSE keys[x]]

\* EXPIRE key seconds
RExpire(keys, k) ==
  IF k \in DOMAIN keys THEN [keys EXCEPT ![k].ttl = TRUE] ELSE keys

\* DEL key
RDel(keys, k) == [x \in DOMAIN keys \ {k} |-> keys[x]]

\* --------------------------------------------------------------- state
VARIABLES
  redis_client,      \* TRUE iff self.redis_client is set (REDIS_URL given)
  rdb,               \* Redis string keys memory:{agent}:{id} -> [json, ttl]
  memory_index,      \* Redis sorted set memory_index:{agent}
  memory_importance, \* Redis sorted set memory_importance:{agent}
  memory_cache,      \* self.memory_cache: agent -> ordered dict of records
  inproc,            \* memory_cache of an in-process-only service given the
                     \* same calls
  used,              \* memory ids handed out by uuid4 so far
  now,               \* int(time.time())
  failures,          \* state-changing calls in which a Redis call raised
  dispatch,          \* the execute_agent request handled last: <<>> or
                     \* <<[agent_id, context, executor, agent_config]>>
  use_mock,          \* GeminiService.use_mock: no valid API key is configured
  execution,         \* the executor call made last: <<>> or one record
  response,          \* the answer of POST /agent/{agent_id}/execute given
                     \* last: <<>> or one record
  extraction,        \* the extract_keywords call made last: <<>> or
                     \* <<[text, keywords]>>
  pending,           \* the MemoryService calls of concurrent requests: for
                     \* each request, the call it makes and how far it is
  redis_available,   \* backend: self.redis and db.redis_available
  short_memory,      \* backend: Redis list agent:{agent}:short_memory
  supabase           \* backend: the rows of the Supabase table memories

\* the state of the agent manager, its generation service and the endpoint
agent_vars == <<use_mock, execution, response, extraction>>

\* the state of the backend's short-term memory
backend_vars == <<redis_available, short_memory, supabase>>

vars == <<redis_client, rdb, memory_index, memory_importance, memory_cache,
          inproc, used, now, failures, dispatch, agent_vars, pending,
          backend_vars>>

\* MemoryService.__init__
Init ==
  /\ redis_client \in BOOLEAN
  /\ rdb = [a \in Agents |-> [k \in {} |-> 0]]
  /\ memory_index = [a \in Agents |-> EmptyZ]
  /\ memory_importance = [a \in Agents |-> EmptyZ]
  /\ memory_cache = [a \in {} |-> <<>>]
  /\ inproc = [a \in {} |-> <<>>]
  /\ used = {}
  /\ now = 0
  /\ failures = 0
  /\ dispatch = <<>>
  /\ use_mock = TRUE
  /\ execution = <<>>
  /\ response = <<>>
  /\ extraction = <<>>
  /\ pending = <<>>
  /\ redis_available = FALSE
  /\ short_memory = <<>>
  /\ supabase = <<>>

\* ----------------------------------------------- in-process fallback
\* position of memory_id in an agent's dict, 0 when absent
PosOf(bucket, memory_id) ==
  IF \E i \in 1..Len(bucket) : bucket[i].id = memory_id
  THEN CHOOSE i \in 1..Len(bucket) : bucket[i].id = memory_id
  ELSE 0

\* memory_id in self.memory_cache[agent_id]
InCache(cache, agent_id, memory_id) ==
  /\ agent_id \in DOMAIN cache
  /\ PosOf(cache[agent_id], memory_id) # 0

\* del self.memory_cache[agent_id][memory_id]
DelEntry(cache, agent_id, memory_id) ==
  [cache EXCEPT ![agent_id] =
     SelectSeq(@, LAMBDA memory : memory.id # memory_id)]

\* del self.memory_cache[agent_id]
\* `del self.memory_cache[agent_id]`, had the map not been keyed by agent
DelBucket_of_every_agent(cache, agent_id) == [a \in {} |-> <<>>]

DelBucket(cache, agent_id) == [a \in DOMAIN cache \ {agent_id} |-> cache[a]]

\* self.memory_cache[agent_id][memory_id]["importance"] = importance
SetImportance(cache, agent_id, memory_id, importance) ==
  [cache EXCEPT ![agent_id] =
     [i \in 1..Len(@) |->
        IF @[i].id = memory_id THEN [@[i] EXCEPT !.importance = importance]
        ELSE @[i]]]

\* _store_in_memory without the creation of the agent's bucket: a record for
\* an agent that has none yet is not kept
_store_in_memory_no_bucket(cache, agent_id, memory_id, memory) ==
  IF agent_id \in DOMAIN cache
  THEN [cache EXCEPT ![agent_id] = Append(@, memory)]
  ELSE cache

\* MemoryService._store_in_memory
_store_in_memory(cache, agent_id, memory_id, memory) ==
  LET c1 == IF agent_id \in DOMAIN cache THEN cache
            ELSE [a \in DOMAIN cache \cup {agent_id} |->
                    IF a = agent_id THEN <<>> ELSE cache[a]]
      p  == PosOf(c1[agent_id], memory_id)
  IN  [c1 EXCEPT ![agent_id] =
         IF p = 0 THEN Append(@, memory) ELSE [@ EXCEPT ![p] = memory]]

\* MemoryService._retrieve_from_memory
_retrieve_from_memory(cache, agent_id, sort_by, limit) ==
  IF agent_id \notin DOMAIN cache THEN <<>>
  ELSE LET agent_memories == cache[agent_id]
           sorted == IF sort_by = "timestamp"
                     THEN SortByCreatedAt(agent_memories)
                     ELSE IF sort_by = "importance"
                          THEN SortByImportance(agent_memories)
                          ELSE agent_memories
       IN  SliceTo(sorted, limit)

\* MemoryService._search_in_memory
_search_in_memory(cache, agent_id, query, limit) ==
  IF agent_id \notin DOMAIN cache THEN <<>>
  ELSE LET agent_memories == cache[agent_id]
           results == SelectSeq(agent_memories,
                        LAMBDA memory : Contains(Lower(memory.content), query))
       IN  SliceTo(SortByRelevance(results, query), limit)

\* MemoryService._delete_from_memory: <<new cache, returned value>>
_delete_from_memory(cache, agent_id, memory_id) ==
  IF agent_id \notin DOMAIN cache THEN <<cache, FALSE>>
  ELSE IF PosOf(cache[agent_id], memory_id) # 0
       THEN <<DelEntry(cache, agent_id, memory_id), TRUE>>
       ELSE <<cache, FALSE>>

\* MemoryService._clear_memory_cache: <<new cache, returned value>>
_clear_memory_cache(cache, agent_id) ==
  IF agent_id \in DOMAIN cache
  THEN <<DelBucket(cache, agent_id), TRUE>>
  ELSE <<cache, FALSE>>

\* MemoryService._update_importance_in_memory: <<new cache, returned value>>
_update_importance_in_memory(cache, agent_id, memory_id, importance) ==
  IF ~InCache(cache, agent_id, memory_id) THEN <<cache, FALSE>>
  ELSE <<SetImportance(cache, agent_id, memory_id, importance), TRUE>>

\* ------------------------------------------------------- tier-1 reads
\* the loop `memory_json = get(key); if memory_json: append(json.loads(..))`
FetchAll(agent_id, memory_ids) ==
  LET present == SelectSeq(memory_ids, LAMBDA m : m \in DOMAIN rdb[agent_id])
  IN  [i \in 1..Len(present) |-> JsonLoads(rdb[agent_id][present[i]].json)]

\* MemoryService.retrieve_recent_memories; fail: some Redis call raises
retrieve_recent_memories(agent_id, limit, fail) ==
  IF redis_client
  THEN IF fail
       THEN _retrieve_from_memory(memory_cache, agent_id, "timestamp", limit)
       ELSE FetchAll(agent_id,
                     ZRevRange(memory_index[agent_id], 0, limit - 1))
  ELSE _retrieve_from_memory(memory_cache, agent_id, "timestamp", limit)

\* MemoryService.retrieve_important_memories
retrieve_important_memories(agent_id, limit, fail) ==
  IF redis_client
  THEN IF fail
       THEN _retrieve_from_memory(memory_cache, agent_id, "importance", limit)
       ELSE FetchAll(agent_id,
                     ZRevRange(memory_importance[agent_id], 0, limit - 1))
  ELSE _retrieve_from_memory(memory_cache, agent_id, "importance", limit)

\* MemoryService.search_memories
search_memories(agent_id, query, limit, fail) ==
  LET query_lower == Lower(query)
  IN  IF redis_client
      THEN IF fail
           THEN _search_in_memory(memory_cache, agent_id, query_lower, limit)
           ELSE LET memories == FetchAll(agent_id,
                                  ZRange(memory_index[agent_id], 0, -1))
                    results == SelectSeq(memories, LAMBDA memory :
                                 Contains(Lower(memory.content), query_lower))
                IN  SliceTo(SortByRelevance(results, query_lower), limit)
      ELSE _search_in_memory(memory_cache, agent_id, query_lower, limit)

\* MemoryService.get_memory: <<memory>>, or <<>> for None
get_memory(agent_id, memory_id, fail) ==
  IF redis_client /\ ~fail /\ memory_id \in DOMAIN rdb[agent_id]
  THEN <<JsonLoads(rdb[agent_id][memory_id].json)>>
  ELSE IF InCache(memory_cache, agent_id, memory_id)
       THEN <<memory_cache[agent_id][PosOf(memory_cache[agent_id], memory_id)]>>
       ELSE <<>>

\* ------------------------------------------------------------ actions
\* store_memory, had it kept importance on a scale of 0 to 100
NewMemory_in_percent(memory_id, agent_id, content, memory_type, metadata, importance, user_id, timestamp) ==
  [id |-> memory_id, agent_id |-> agent_id, content |-> content,
   type |-> memory_type,
   metadata |-> IF metadata = NoneVal THEN EmptyDict ELSE metadata,
   importance |-> importance * 10, created_at |-> timestamp,
   user_id |-> user_id]

\* the memory dict built by store_memory
NewMemory(memory_id, agent_id, content, memory_type, metadata, importance, user_id, timestamp) ==
  [id |-> memory_id, agent_id |-> agent_id, content |-> content,
   type |-> memory_type,
   metadata |-> IF metadata = NoneVal THEN EmptyDict ELSE metadata,
   importance |-> importance, created_at |-> timestamp, user_id |-> user_id]

\* the Redis calls of store_memory, in order
StoreCalls(expiration) ==
  IF expiration # 0
  THEN <<"set", "expire", "zadd_index", "zadd_importance">>
  ELSE <<"set", "zadd_index", "zadd_importance">>

\* the Redis calls of delete_memory and of update_memory_importance
DeleteCalls == <<"delete", "zrem_index", "zrem_importance">>
UpdateCalls == <<"get", "set", "zadd_importance">>

\* call c of the list was made and did not raise, when call number failAt
\* raises (0: none does)
Done(calls, failAt, c) ==
  \E i \in 1..Len(calls) : calls[i] = c /\ (failAt = 0 \/ i < failAt)

\* MemoryService.store_memory: what one call does to the service
store_memory_call(agent_id, content, memory_type, metadata, importance, user_id, expiration, memory_id, failAt) ==
  LET memory == NewMemory(memory_id, agent_id, content, memory_type, metadata,
                          importance, user_id, now)
      calls  == StoreCalls(expiration)
      k1     == IF Done(calls, failAt, "set")
                THEN RSet(rdb[agent_id], memory_id, JsonDumps(memory))
                ELSE rdb[agent_id]
      k2     == IF Done(calls, failAt, "expire")
                THEN RExpire(k1, memory_id) ELSE k1
  IN
  /\ memory_id \in MemIds \ used
  /\ failAt # 0 => failures < MaxFailures
  /\ failAt \in 0..(IF redis_client THEN Len(calls) ELSE 0)
  /\ used' = used \cup {memory_id}
  /\ IF redis_client
     THEN /\ rdb' = [rdb EXCEPT ![agent_id] = k2]
          /\ memory_index' =
               IF Done(calls, failAt, "zadd_index")
               THEN [memory_index EXCEPT
                       ![agent_id] = ZAdd(@, memory_id, memory.created_at)]
               ELSE memory_index
          /\ memory_importance' =
               IF Done(calls, failAt, "zadd_importance")
               THEN [memory_importance EXCEPT
                       ![agent_id] = ZAdd(@, memory_id, importance)]
               ELSE memory_importance
          /\ memory_cache' =
               IF failAt # 0
               THEN _store_in_memory(memory_cache, agent_id, memory_id, memory)
               ELSE memory_cache
     ELSE /\ memory_cache' =
               _store_in_memory(memory_cache, agent_id, memory_id, memory)
          /\ UNCHANGED <<rdb, memory_index, memory_importance>>
  /\ inproc' = _store_in_memory(inproc, agent_id, memory_id, memory)
  /\ failures' = failures + (IF failAt # 0 THEN 1 ELSE 0)

\* MemoryService.store_memory, called on its own
store_memory(agent_id, content, memory_type, metadata, importance, user_id, expiration, memory_id, failAt) ==
  /\ store_memory_call(agent_id, content, memory_type, metadata, importance,
                       user_id, expiration, memory_id, failAt)
  /\ UNCHANGED <<pending, backend_vars, redis_client, now, dispatch, agent_vars>>

StoreMemory ==
  \E agent_id \in Agents, content \in Contents, memory_type \in MemoryTypes,
     metadata \in Metadatas, importance \in Importances, user_id \in UserIds,
     expiration \in Expirations, memory_id \in MemIds, failAt \in 0..4 :
    store_memory(agent_id, content, memory_type, metadata, importance, user_id,
                 expiration, memory_id, failAt)

\* MemoryService.delete_memory
delete_memory(agent_id, memory_id, failAt) ==
  LET fallback == _delete_from_memory(memory_cache, agent_id, memory_id)
  IN
  /\ failAt # 0 => failures < MaxFailures
  /\ failAt \in 0..(IF redis_client THEN Len(DeleteCalls) ELSE 0)
  /\ IF redis_client
     THEN /\ rdb' = IF Done(DeleteCalls, failAt, "delete")
                    THEN [rdb EXCEPT ![agent_id] = RDel(@, memory_id)]
                    ELSE rdb
          /\ memory_index' =
               IF Done(DeleteCalls, failAt, "zrem_index")
               THEN [memory_index EXCEPT ![agent_id] = ZRem(@, memory_id)]
               ELSE memory_index
          /\ memory_importance' =
               IF Done(DeleteCalls, failAt, "zrem_importance")
               THEN [memory_importance EXCEPT ![agent_id] = ZRem(@, memory_id)]
               ELSE memory_importance
          /\ memory_cache' =
               IF failAt = 0
               THEN (IF InCache(memory_cache, agent_id, memory_id)
                     THEN DelEntry(memory_cache, agent_id, memory_id)
                     ELSE memory_cache)
               ELSE fallback[1]
     ELSE /\ memory_cache' = fallback[1]
          /\ UNCHANGED <<rdb, memory_index, memory_importance>>
  /\ inproc' = _delete_from_memory(inproc, agent_id, memory_id)[1]
  /\ failures' = failures + (IF failAt # 0 THEN 1 ELSE 0)
  /\ UNCHANGED <<pending, backend_vars, redis_client, used, now, dispatch, agent_vars>>

DeleteMemory ==
  \E agent_id \in Agents, memory_id \in MemIds, failAt \in 0..3 :
    delete_memory(agent_id, memory_id, failAt)

\* MemoryService.clear_agent_memories. Its Redis calls are: 1 the zrange,
\* then one delete per id the zrange returned, then the delete of
\* memory_index and the delete of memory_importance.
clear_agent_memories(agent_id, failAt) ==
  LET memory_ids == ZRange(memory_index[agent_id], 0, -1)
      n          == Len(memory_ids)
      fallback   == _clear_memory_cache(memory_cache, agent_id)
      \* ids whose record key was deleted before the failing call
      gone       == {memory_ids[i] : i \in
                       {j \in 1..n : failAt = 0 \/ j + 1 < failAt}}
  IN
  /\ failAt # 0 => failures < MaxFailures
  /\ failAt \in 0..(IF redis_client THEN n + 3 ELSE 0)
  /\ IF redis_client
     THEN /\ rdb' = [rdb EXCEPT ![agent_id] =
                       [k \in DOMAIN @ \ gone |-> @[k]]]
          /\ memory_index' =
               IF failAt = 0 \/ failAt > n + 2
               THEN [memory_index EXCEPT ![agent_id] = EmptyZ]
               ELSE memory_index
          /\ memory_importance' =
               IF failAt = 0
               THEN [memory_importance EXCEPT ![agent_id] = EmptyZ]
               ELSE memory_importance
          /\ memory_cache' =
               IF failAt = 0
               THEN (IF agent_id \in DOMAIN memory_cache
                     THEN DelBucket(memory_cache, agent_id)
                     ELSE memory_cache)
               ELSE fallback[1]
     ELSE /\ memory_cache' = fallback[1]
          /\ UNCHANGED <<rdb, memory_index, memory_importance>>
  /\ inproc' = _clear_memory_cache(inproc, agent_id)[1]
  /\ failures' = failures + (IF failAt # 0 THEN 1 ELSE 0)
  /\ UNCHANGED <<pending, backend_vars, redis_client, used, now, dispatch, agent_vars>>

ClearAgentMemories ==
  \E agent_id \in Agents, failAt \in 0..(MaxMem + 3) :
    clear_agent_memories(agent_id, failAt)

\* what delete_memory returns: True once its three Redis calls went through
\* (line 381), else what _delete_from_memory returns
delete_memory_returns(agent_id, memory_id, failAt) ==
  IF redis_client /\ failAt = 0 THEN TRUE
  ELSE _delete_from_memory(memory_cache, agent_id, memory_id)[2]

\* what clear_agent_memories returns: True once its Redis calls went through
\* (line 444), else what _clear_memory_cache returns
clear_agent_memories_returns(agent_id, failAt) ==
  IF redis_client /\ failAt = 0 THEN TRUE
  ELSE _clear_memory_cache(memory_cache, agent_id)[2]

\* main.clear_agent_memory, the /agent/{agent_id}/clear-memory endpoint:
\* the body it answers with
clear_agent_memory(agent_id, failAt) ==
  IF clear_agent_memories_returns(agent_id, failAt)
  THEN [success |-> TRUE, message |-> "Memory cleared for agent"]
  ELSE [success |-> FALSE, message |-> "Failed to clear memory for agent"]

\* MemoryService.update_memory_importance
update_memory_importance(agent_id, memory_id, importance, failAt) ==
  LET found    == memory_id \in DOMAIN rdb[agent_id]
      memory   == [JsonLoads(rdb[agent_id][memory_id].json)
                     EXCEPT !.importance = importance]
      fallback == _update_importance_in_memory(memory_cache, agent_id,
                                               memory_id, importance)
      \* the get found nothing: return False, no other call is made
      missing  == redis_client /\ failAt # 1 /\ ~found
  IN
  /\ failAt # 0 => failures < MaxFailures
  /\ failAt \in 0..(IF redis_client
                    THEN (IF found THEN Len(UpdateCalls) ELSE 1) ELSE 0)
  /\ IF redis_client
     THEN /\ rdb' = IF found /\ Done(UpdateCalls, failAt, "set")
                    THEN [rdb EXCEPT ![agent_id] =
                            RSet(@, memory_id, JsonDumps(memory))]
                    ELSE rdb
          /\ memory_importance' =
               IF found /\ Done(UpdateCalls, failAt, "zadd_importance")
               THEN [memory_importance EXCEPT
                       ![agent_id] = ZAdd(@, memory_id, importance)]
               ELSE memory_importance
          /\ memory_cache' =
               IF missing THEN memory_cache
               ELSE IF failAt = 0
                    THEN (IF InCache(memory_cache, agent_id, memory_id)
                          THEN SetImportance(memory_cache, agent_id, memory_id,
                                             importance)
                          ELSE memory_cache)
                    ELSE fallback[1]
     ELSE /\ memory_cache' = fallback[1]
          /\ UNCHANGED <<rdb, memory_importance>>
  /\ inproc' = _update_importance_in_memory(inproc, agent_id, memory_id,
                                            importance)[1]
  /\ failures' = failures + (IF failAt # 0 THEN 1 ELSE 0)
  /\ UNCHANGED <<pending, backend_vars, redis_client, memory_index, used, now, dispatch, agent_vars>>

UpdateMemoryImportance ==
  \E agent_id \in Agents, memory_id \in MemIds, importance \in Importances,
     failAt \in 0..3 :
    update_memory_importance(agent_id, memory_id, importance, failAt)

\* the four read operations change nothing; what each returns is the
\* operator of its name
RetrieveRecentMemories ==
  \E agent_id \in Agents, limit \in Limits, fail \in BOOLEAN :
    /\ fail => redis_client
    /\ Len(retrieve_recent_memories(agent_id, limit, fail)) >= 0
    /\ UNCHANGED vars

RetrieveImportantMemories ==
  \E agent_id \in Agents, limit \in Limits, fail \in BOOLEAN :
    /\ fail => redis_client
    /\ Len(retrieve_important_memories(agent_id, limit, fail)) >= 0
    /\ UNCHANGED vars

SearchMemories ==
  \E agent_id \in Agents, query \in Queries, limit \in Limits,
     fail \in BOOLEAN :
    /\ fail => redis_client
    /\ Len(search_memories(agent_id, query, limit, fail)) >= 0
    /\ UNCHANGED vars

GetMemory ==
  \E agent_id \in Agents, memory_id \in MemIds, fail \in BOOLEAN :
    /\ fail => redis_client
    /\ Len(get_memory(agent_id, memory_id, fail)) <= 1
    /\ UNCHANGED vars

\* Redis drops a key whose TTL has run out
KeyExpires ==
  \E agent_id \in Agents :
    \E memory_id \in DOMAIN rdb[agent_id] :
      /\ rdb[agent_id][memory_id].ttl
      /\ rdb' = [rdb EXCEPT ![agent_id] = RDel(@, memory_id)]
      /\ UNCHANGED <<pending, backend_vars, redis_client, memory_index, memory_importance,
                     memory_cache, inproc, used, now, failures, dispatch, agent_vars>>

\* time.time() moves on
Tick ==
  /\ now < MaxTime
  /\ now' = now + 1
  /\ UNCHANGED <<pending, backend_vars, redis_client, rdb, memory_index, memory_importance,
                 memory_cache, inproc, used, failures, dispatch, agent_vars>>

\* ------------------------------------------------- agent dispatch
\* the string literals of agent_manager.py, as character sequences
S_seo == <<"s", "e", "o">>
S_seo_ == <<"s", "e", "o", "_">>
S_business == <<"b", "u", "s", "i", "n", "e", "s", "s">>
S_business_ == <<"b", "u", "s", "i", "n", "e", "s", "s", "_">>
S_analyst == <<"a", "n", "a", "l", "y", "s", "t">>
S_support == <<"s", "u", "p", "p", "o", "r", "t">>
S_customer == <<"c", "u", "s", "t", "o", "m", "e", "r">>
S_customer_ == <<"c", "u", "s", "t", "o", "m", "e", "r", "_">>
S_data == <<"d", "a", "t", "a">>
S_data_ == <<"d", "a", "t", "a", "_">>
S_generic == <<"g", "e", "n", "e", "r", "i", "c">>
S_agent_simulator ==
  <<"a", "g", "e", "n", "t", "-", "s", "i", "m", "u", "l", "a", "t", "o",
    "r">>
S_Agent == <<" ", "A", "g", "e", "n", "t">>
S_Specialist == <<" ", "S", "p", "e", "c", "i", "a", "l", "i", "s", "t">>
S_specialized_in ==
  <<"A", "I", " ", "a", "g", "e", "n", "t", " ", "s", "p", "e", "c", "i",
    "a", "l", "i", "z", "e", "d", " ", "i", "n", " ">>
S_tasks == <<" ", "t", "a", "s", "k", "s">>
S_default_personality ==
  <<"P", "r", "o", "f", "e", "s", "s", "i", "o", "n", "a", "l", ",", " ",
    "h", "e", "l", "p", "f", "u", "l", ",", " ", "a", "n", "d", " ", "k",
    "n", "o", "w", "l", "e", "d", "g", "e", "a", "b", "l", "e">>

\* request inputs: agent ids
Id_seo_writer_1 ==
  <<"s", "e", "o", "_", "w", "r", "i", "t", "e", "r", "_", "1">>
Id_business_data_analyst ==
  <<"b", "u", "s", "i", "n", "e", "s", "s", "_", "d", "a", "t", "a", "_",
    "a", "n", "a", "l", "y", "s", "t">>
Id_support_data_1 ==
  <<"s", "u", "p", "p", "o", "r", "t", "_", "d", "a", "t", "a", "_", "1">>
Id_customer_seo ==
  <<"c", "u", "s", "t", "o", "m", "e", "r", "_", "s", "e", "o">>
Id_data_support ==
  <<"d", "a", "t", "a", "_", "s", "u", "p", "p", "o", "r", "t">>
Id_data_pipeline ==
  <<"d", "a", "t", "a", "_", "p", "i", "p", "e", "l", "i", "n", "e">>
Id_analyst_7 == <<"a", "n", "a", "l", "y", "s", "t", "_", "7">>
Id_customer_care ==
  <<"c", "u", "s", "t", "o", "m", "e", "r", "_", "c", "a", "r", "e">>
Id_agent_simulator ==
  <<"a", "g", "e", "n", "t", "-", "s", "i", "m", "u", "l", "a", "t", "o",
    "r">>
Id_agent_simulator_2 ==
  <<"a", "g", "e", "n", "t", "-", "s", "i", "m", "u", "l", "a", "t", "o",
    "r", "-", "2">>
Id_empty == <<>>
Id_helper_bot == <<"h", "e", "l", "p", "e", "r", "_", "b", "o", "t">>
Id_SEO_WRITER == <<"S", "E", "O", "_", "W", "R", "I", "T", "E", "R">>
Id_museology == <<"m", "u", "s", "e", "o", "l", "o", "g", "y">>
Id_business_support ==
  <<"b", "u", "s", "i", "n", "e", "s", "s", "_", "s", "u", "p", "p", "o",
    "r", "t">>
Id_xdata == <<"x", "d", "a", "t", "a">>
AgentIds ==
  { Id_seo_writer_1,
    Id_business_data_analyst,
    Id_support_data_1,
    Id_customer_seo,
    Id_data_support,
    Id_data_pipeline,
    Id_analyst_7,
    Id_customer_care,
    Id_agent_simulator,
    Id_agent_simulator_2,
    Id_empty,
    Id_helper_bot,
    Id_SEO_WRITER,
    Id_museology,
    Id_business_support,
    Id_xdata }

\* request inputs: values a context may carry
V_Bob == <<"B", "o", "b">>
V_Writer == <<"W", "r", "i", "t", "e", "r">>
V_terse == <<"t", "e", "r", "s", "e">>
V_helps == <<"h", "e", "l", "p", "s">>

EmptyContext == [k \in {} |-> NoneVal]
Contexts ==
  { EmptyContext,
    "agent_name" :> V_Bob,
    "memory_enabled" :> FALSE,
    "voice_enabled" :> TRUE,
    ("agent_name" :> V_Bob) @@ ("memory_enabled" :> FALSE)
      @@ ("voice_enabled" :> TRUE),
    ("agent_role" :> V_Writer) @@ ("agent_tools" :> <<"search">>),
    ("voice_enabled" :> TRUE) @@ ("voice_id" :> "voice-1"),
    ("agent_name" :> V_Bob) @@ ("agent_role" :> V_Writer)
      @@ ("agent_description" :> V_helps) @@ ("agent_personality" :> V_terse)
      @@ ("agent_tools" :> <<"search">>) @@ ("memory_enabled" :> FALSE)
      @@ ("voice_enabled" :> TRUE) @@ ("voice_id" :> "voice-1") }

\* context.get(key, default)
Get(context, key, default) ==
  IF key \in DOMAIN context THEN context[key] ELSE default

\* str.capitalize()
Capitalize(s) ==
  [i \in 1..Len(s) |-> IF i = 1 THEN UpperChar(s[i]) ELSE LowerChar(s[i])]

\* AgentManager._get_agent_config
_get_agent_config(agent_id, context) ==
  LET agent_type ==
        IF Contains(agent_id, S_seo) THEN S_seo
        ELSE IF Contains(agent_id, S_business) \/ Contains(agent_id, S_analyst)
        THEN S_business
        ELSE IF Contains(agent_id, S_support) \/ Contains(agent_id, S_customer)
        THEN S_support
        ELSE IF Contains(agent_id, S_data) THEN S_data
        ELSE S_generic
  IN  [id |-> agent_id,
       name |-> Get(context, "agent_name", Capitalize(agent_type) \o S_Agent),
       role |-> Get(context, "agent_role",
                    Capitalize(agent_type) \o S_Specialist),
       description |-> Get(context, "agent_description",
                           S_specialized_in \o agent_type \o S_tasks),
       personality |-> Get(context, "agent_personality",
                           S_default_personality),
       tools |-> Get(context, "agent_tools", <<>>),
       memory |-> Get(context, "memory_enabled", TRUE),
       voice |-> Get(context, "voice_enabled", FALSE),
       voice_id |-> Get(context, "voice_id", NoneVal)]

\* the chain with the data-science test moved before the support test
Executor_data_first(agent_id) ==
  IF StartsWith(agent_id, S_seo_) \/ Contains(agent_id, S_seo)
  THEN "_execute_seo_agent"
  ELSE IF \/ StartsWith(agent_id, S_business_)
          \/ Contains(agent_id, S_business)
          \/ Contains(agent_id, S_analyst)
  THEN "_execute_business_agent"
  ELSE IF StartsWith(agent_id, S_data_) \/ Contains(agent_id, S_data)
  THEN "_execute_data_science_agent"
  ELSE IF \/ StartsWith(agent_id, S_customer_)
          \/ Contains(agent_id, S_support)
          \/ Contains(agent_id, S_customer)
  THEN "_execute_customer_support_agent"
  ELSE IF agent_id = S_agent_simulator
  THEN "_execute_simulation_agent"
  ELSE "_execute_generic_agent"

\* the if/elif chain of AgentManager.execute_agent: the executor it calls
Executor(agent_id) ==
  IF StartsWith(agent_id, S_seo_) \/ Contains(agent_id, S_seo)
  THEN "_execute_seo_agent"
  ELSE IF \/ StartsWith(agent_id, S_business_)
          \/ Contains(agent_id, S_business)
          \/ Contains(agent_id, S_analyst)
  THEN "_execute_business_agent"
  ELSE IF \/ StartsWith(agent_id, S_customer_)
          \/ Contains(agent_id, S_support)
          \/ Contains(agent_id, S_customer)
  THEN "_execute_customer_support_agent"
  ELSE IF StartsWith(agent_id, S_data_) \/ Contains(agent_id, S_data)
  THEN "_execute_data_science_agent"
  ELSE IF agent_id = S_agent_simulator
  THEN "_execute_simulation_agent"
  ELSE "_execute_generic_agent"

\* AgentManager.execute_agent, up to the call of the executor
execute_agent(agent_id, context) ==
  /\ dispatch' = <<[agent_id |-> agent_id, context |-> context,
                    executor |-> Executor(agent_id),
                    agent_config |-> _get_agent_config(agent_id, context)]>>
  /\ UNCHANGED <<pending, backend_vars, redis_client, rdb, memory_index, memory_importance,
                 memory_cache, inproc, used, now, failures, agent_vars>>

ExecuteAgent ==
  \E agent_id \in AgentIds, context \in Contexts :
    execute_agent(agent_id, context)


\* ------------------------------------------------- extract_keywords
\* the stop words of extract_keywords (a Python set: the words the source
\* lists twice are in it once)
common_words ==
  { <<"t", "h", "e">>,
    <<"a">>,
    <<"a", "n">>,
    <<"a", "n", "d">>,
    <<"o", "r">>,
    <<"b", "u", "t">>,
    <<"i", "s">>,
    <<"a", "r", "e">>,
    <<"w", "a", "s">>,
    <<"w", "e", "r", "e">>,
    <<"i", "n">>,
    <<"o", "n">>,
    <<"a", "t">>,
    <<"t", "o">>,
    <<"f", "o", "r">>,
    <<"w", "i", "t", "h">>,
    <<"b", "y">>,
    <<"a", "b", "o", "u", "t">>,
    <<"l", "i", "k", "e">>,
    <<"f", "r", "o", "m">>,
    <<"o", "f">>,
    <<"a", "s">>,
    <<"m", "y">>,
    <<"o", "u", "r">>,
    <<"y", "o", "u", "r">>,
    <<"t", "h", "e", "i", "r">>,
    <<"h", "i", "s">>,
    <<"h", "e", "r">>,
    <<"i", "t", "s">>,
    <<"i">>,
    <<"w", "e">>,
    <<"y", "o", "u">>,
    <<"t", "h", "e", "y">>,
    <<"h", "e">>,
    <<"s", "h", "e">>,
    <<"i", "t">>,
    <<"t", "h", "i", "s">>,
    <<"t", "h", "a", "t">>,
    <<"w", "h", "a", "t">>,
    <<"w", "h", "i", "c", "h">>,
    <<"w", "h", "o">>,
    <<"w", "h", "o", "m">>,
    <<"w", "h", "o", "s", "e">>,
    <<"w", "h", "e", "n">>,
    <<"w", "h", "e", "r", "e">>,
    <<"w", "h", "y">>,
    <<"h", "o", "w">>,
    <<"c", "a", "n">>,
    <<"c", "o", "u", "l", "d">>,
    <<"w", "o", "u", "l", "d">>,
    <<"s", "h", "o", "u", "l", "d">>,
    <<"w", "i", "l", "l">>,
    <<"s", "h", "a", "l", "l">>,
    <<"m", "a", "y">>,
    <<"m", "i", "g", "h", "t">>,
    <<"m", "u", "s", "t">>,
    <<"h", "a", "v", "e">>,
    <<"h", "a", "s">>,
    <<"h", "a", "d">>,
    <<"d", "o">>,
    <<"d", "o", "e", "s">>,
    <<"d", "i", "d">>,
    <<"a", "m">>,
    <<"b", "e">>,
    <<"b", "e", "e", "n">>,
    <<"b", "e", "i", "n", "g">> }

\* the characters str.split() splits at (those a TLA+ string can hold)
Whitespace == {" ", "\t", "\n", "\r", "\f"}

\* the characters of word.strip(".,;:!?\"'()[]{}-")
StripChars ==
  {".", ",", ";", ":", "!", "?", "\"", "'", "(", ")", "[", "]", "{", "}", "-"}

\* str.split(): the maximal runs of characters that are not whitespace
RECURSIVE Split(_)
Split(s) ==
  IF s = <<>> THEN <<>>
  ELSE IF s[1] \in Whitespace THEN Split(Tail(s))
  ELSE LET ends == {i \in 1..Len(s) : s[i] \in Whitespace}
           stop == IF ends = {} THEN Len(s) + 1
                   ELSE CHOOSE i \in ends : \A j \in ends : i <= j
       IN  <<SubSeq(s, 1, stop - 1)>> \o Split(SubSeq(s, stop, Len(s)))

\* word.strip(chars): the characters of chars are dropped from both ends
Strip(word, chars) ==
  LET keep == {i \in 1..Len(word) : word[i] \notin chars}
  IN  IF keep = {} THEN <<>>
      ELSE SubSeq(word,
                  CHOOSE i \in keep : \A j \in keep : i <= j,
                  CHOOSE i \in keep : \A j \in keep : i >= j)

\* keywords.count(word)
Count(keywords, word) ==
  Cardinality({i \in 1..Len(keywords) : keywords[i] = word})

\* the tokens of the text that extract_keywords keeps, in the order of the
\* text: lowercased, split, stripped, longer than 2 and no stop word
Keywords(text) ==
  LET split == Split(Lower(text))
      words == [i \in 1..Len(split) |-> Strip(split[i], StripChars)]
  IN  SelectSeq(words, LAMBDA word :
        word # <<>> /\ Len(word) > 2 /\ word \notin common_words)

\* the distinct elements of a list, each at its first occurrence
FirstSeen(s) ==
  LET firsts == {i \in 1..Len(s) : \A j \in 1..(i - 1) : s[j] # s[i]}
      Mark(i) == i \in firsts
      idx == SelectSeq([i \in 1..Len(s) |-> i], Mark)
  IN  [k \in 1..Len(idx) |-> s[idx[k]]]

\* s moved round by k places
Rotate(s, k) ==
  [i \in 1..Len(s) |-> s[((i + k - 1) % Len(s)) + 1]]

\* list(set(keywords)): the iteration order of a set of strings is fixed by
\* the strings' hashes, which Python draws anew in every process
\* (PYTHONHASHSEED), so the list is one of the orders of the set. The orders
\* taken here are the first-occurrence order moved round by any number of
\* places, forwards and backwards (all the orders of a set of up to three).
SetOrders(keywords) ==
  LET first == FirstSeen(keywords)
  IN  {Rotate(first, k) : k \in 0..(Len(first) - 1)}
        \cup {Reverse(Rotate(first, k)) : k \in 0..(Len(first) - 1)}
        \cup {first}

\* sorted(...) without reverse=True: the least frequent first
SortByCount_ascending(unique_keywords, keywords) ==
  Undecorate(Reverse(SortDesc([i \in 1..Len(unique_keywords) |->
     [key |-> <<Count(keywords, unique_keywords[i])>>,
      val |-> unique_keywords[i]]])))

\* sorted(unique_keywords, key=lambda x: keyword_counts[x], reverse=True)
SortByCount(unique_keywords, keywords) ==
  Undecorate(SortDesc([i \in 1..Len(unique_keywords) |->
     [key |-> <<Count(keywords, unique_keywords[i])>>,
      val |-> unique_keywords[i]]]))

\* extract_keywords(text), when list(set(keywords)) is unique_keywords
extract_keywords(text, unique_keywords) ==
  SliceTo(SortByCount(unique_keywords, Keywords(text)), 10)

\* request inputs: the words a text is made of
W_base ==
  << <<"a", "a", "a">>, <<"b", "b", "b">>, <<"c", "c", "c">>,
     <<"d", "d", "d">>, <<"e", "e", "e">>, <<"f", "f", "f">>,
     <<"g", "g", "g">>, <<"h", "h", "h">>, <<"i", "i", "i">>,
     <<"j", "j", "j">> >>
Words ==
  { <<"k", "k", "k">>, <<"l", "l", "l">>, <<"a", "a", "a">>,
    <<"T", "h", "e">>, <<"i", "t">>, <<"K", "k", "k", "!">>,
    <<"(", "l", "l", "l", ")">>, <<"-", "-">> }

\* " ".join(words)
RECURSIVE Join(_)
Join(words) ==
  IF words = <<>> THEN <<>>
  ELSE IF Len(words) = 1 THEN words[1]
  ELSE words[1] \o <<" ">> \o Join(Tail(words))

\* request inputs: texts of up to MaxWords words, alone or after ten
\* different keywords
Texts ==
  LET tails == UNION {[1..n -> Words] : n \in 0..MaxWords}
  IN  {Join(ws) : ws \in tails} \cup {Join(W_base \o ws) : ws \in tails}

\* one call of extract_keywords
ExtractKeywords ==
  /\ extraction = <<>>
  /\ \E text \in Texts :
       \E unique_keywords \in SetOrders(Keywords(text)) :
         extraction' =
           <<[text |-> text,
              keywords |-> extract_keywords(text, unique_keywords)]>>
  /\ UNCHANGED <<pending, backend_vars, redis_client, rdb, memory_index, memory_importance,
                 memory_cache, inproc, used, now, failures, dispatch,
                 use_mock, execution, response>>



\* ------------------------------------------------------ text helpers
\* str(i) for a list index
RECURSIVE Str(_)
Str(i) ==
  LET Digits == <<"0", "1", "2", "3", "4", "5", "6", "7", "8", "9">>
  IN  IF i < 10 THEN <<Digits[i + 1]>>
      ELSE Str(i \div 10) \o <<Digits[(i % 10) + 1]>>

\* the text of a JSON string for s, without the quotes: json.dumps writes
\* a backslash before a quote and a backslash, and \n, \t for the two
\* control characters the texts here can hold
RECURSIVE JsonEscape(_)
JsonEscape(s) ==
  IF Len(s) = 0 THEN <<>>
  ELSE IF Len(s) = 1
  THEN (IF s[1] = "\"" THEN <<"\\", "\"">>
        ELSE IF s[1] = "\\" THEN <<"\\", "\\">>
        ELSE IF s[1] = "\n" THEN <<"\\", "n">>
        ELSE IF s[1] = "\t" THEN <<"\\", "t">>
        ELSE s)
  ELSE LET h == Len(s) \div 2
       IN  JsonEscape(SubSeq(s, 1, h)) \o JsonEscape(SubSeq(s, h + 1, Len(s)))

\* json.dumps of a string
JsonString(s) == <<"\"">> \o JsonEscape(s) \o <<"\"">>

\* json.dumps of a list of strings
JsonList(list) ==
  LET RECURSIVE JsonItems(_)
      JsonItems(items) ==
        IF items = <<>> THEN <<>>
        ELSE IF Len(items) = 1 THEN JsonString(items[1])
        ELSE JsonString(items[1]) \o <<",", " ">> \o JsonItems(Tail(items))
  IN  <<"[">> \o JsonItems(list) \o <<"]">>

\* json.loads of the JSON string that opens at place i of s (s[i] is its
\* quote): <<the string, the place after its closing quote>>
JsonStringAt(s, i) ==
  LET \* the number of backslashes that end just before place j of t
      RECURSIVE SlashesBefore(_, _)
      SlashesBefore(t, j) ==
        IF j > 1 /\ t[j - 1] = "\\" THEN 1 + SlashesBefore(t, j - 1) ELSE 0
      closes == {j \in (i + 1)..Len(s) :
                   s[j] = "\"" /\ SlashesBefore(s, j) % 2 = 0}
      stop   == CHOOSE j \in closes : \A k \in closes : j <= k
      \* the places of an escaped character: after an odd run of backslashes
      Escaped(j) == SlashesBefore(s, j) % 2 = 1
      kept   == SelectSeq([j \in 1..(stop - i - 1) |-> i + j],
                          LAMBDA j : ~(s[j] = "\\" /\ ~Escaped(j)))
  IN  << [k \in 1..Len(kept) |->
            IF Escaped(kept[k])
            THEN (IF s[kept[k]] = "n" THEN "\n"
                  ELSE IF s[kept[k]] = "t" THEN "\t"
                  ELSE s[kept[k]])
            ELSE s[kept[k]]],
         stop + 1 >>

\* ------------------------------------------------------ GeminiService
\* the keywords of _generate_mock_response
mock_keyword ==
  [hello |->
     <<"h", "e", "l", "l", "o">>,
   hi |->
     <<"h", "i", " ">>,
   blueprint |->
     <<"b", "l", "u", "e", "p", "r", "i", "n", "t">>,
   agent |->
     <<"a", "g", "e", "n", "t">>,
   workflow |->
     <<"w", "o", "r", "k", "f", "l", "o", "w">>]

\* the responses of _generate_mock_response; the general one quotes the
\* prompt between its two parts
mock_response ==
  [greeting |->
     <<"H", "e", "l", "l", "o", "!", " ", "I", "'", "m", " ", "y", "o", "u",
       "r", " ", "A", "I", " ", "a", "s", "s", "i", "s", "t", "a", "n", "t",
       ".", " ", "H", "o", "w", " ", "c", "a", "n", " ", "I", " ", "h", "e",
       "l", "p", " ", "y", "o", "u", " ", "t", "o", "d", "a", "y", "?">>,
   blueprint |->
     <<"I", " ", "c", "a", "n", " ", "h", "e", "l", "p", " ", "y", "o", "u",
       " ", "c", "r", "e", "a", "t", "e", " ", "a", " ", "b", "l", "u", "e",
       "p", "r", "i", "n", "t", " ", "f", "o", "r", " ", "y", "o", "u", "r",
       " ", "b", "u", "s", "i", "n", "e", "s", "s", " ", "a", "u", "t", "o",
       "m", "a", "t", "i", "o", "n", " ", "n", "e", "e", "d", "s", ".", " ",
       "W", "o", "u", "l", "d", " ", "y", "o", "u", " ", "l", "i", "k", "e",
       " ", "m", "e", " ", "t", "o", " ", "a", "n", "a", "l", "y", "z", "e",
       " ", "y", "o", "u", "r", " ", "r", "e", "q", "u", "i", "r", "e", "m",
       "e", "n", "t", "s", " ", "a", "n", "d", " ", "s", "u", "g", "g", "e",
       "s", "t", " ", "a", "n", " ", "A", "I", " ", "a", "g", "e", "n", "t",
       " ", "s", "t", "r", "u", "c", "t", "u", "r", "e", "?">>,
   agent |->
     <<"A", "I", " ", "a", "g", "e", "n", "t", "s", " ", "c", "a", "n", " ",
       "h", "a", "n", "d", "l", "e", " ", "s", "p", "e", "c", "i", "a", "l",
       "i", "z", "e", "d", " ", "t", "a", "s", "k", "s", " ", "i", "n", " ",
       "y", "o", "u", "r", " ", "b", "u", "s", "i", "n", "e", "s", "s", ".",
       " ", "T", "h", "e", "y", " ", "c", "a", "n", " ", "b", "e", " ", "c",
       "o", "n", "f", "i", "g", "u", "r", "e", "d", " ", "w", "i", "t", "h",
       " ", "d", "i", "f", "f", "e", "r", "e", "n", "t", " ", "r", "o", "l",
       "e", "s", ",", " ", "t", "o", "o", "l", "s", ",", " ", "a", "n", "d",
       " ", "c", "a", "p", "a", "b", "i", "l", "i", "t", "i", "e", "s", " ",
       "t", "o", " ", "a", "u", "t", "o", "m", "a", "t", "e", " ", "w", "o",
       "r", "k", "f", "l", "o", "w", "s", ".">>,
   workflow |->
     <<"W", "o", "r", "k", "f", "l", "o", "w", "s", " ", "c", "o", "n", "n",
       "e", "c", "t", " ", "y", "o", "u", "r", " ", "A", "I", " ", "a", "g",
       "e", "n", "t", "s", " ", "t", "o", " ", "a", "c", "c", "o", "m", "p",
       "l", "i", "s", "h", " ", "c", "o", "m", "p", "l", "e", "x", " ", "b",
       "u", "s", "i", "n", "e", "s", "s", " ", "p", "r", "o", "c", "e", "s",
       "s", "e", "s", ".", " ", "T", "h", "e", "y", " ", "c", "a", "n", " ",
       "b", "e", " ", "t", "r", "i", "g", "g", "e", "r", "e", "d", " ", "m",
       "a", "n", "u", "a", "l", "l", "y", ",", " ", "o", "n", " ", "a", " ",
       "s", "c", "h", "e", "d", "u", "l", "e", ",", " ", "o", "r", " ", "b",
       "y", " ", "e", "x", "t", "e", "r", "n", "a", "l", " ", "e", "v", "e",
       "n", "t", "s", ".">>,
   general_before |->
     <<"I", "'", "v", "e", " ", "a", "n", "a", "l", "y", "z", "e", "d", " ",
       "y", "o", "u", "r", " ", "r", "e", "q", "u", "e", "s", "t", " ", "a",
       "b", "o", "u", "t", " ", "'">>,
   general_after |->
     <<"'", ".", " ", "T", "o", " ", "h", "e", "l", "p", " ", "y", "o", "u",
       " ", "b", "e", "t", "t", "e", "r", ",", " ", "c", "o", "u", "l", "d",
       " ", "y", "o", "u", " ", "p", "r", "o", "v", "i", "d", "e", " ", "m",
       "o", "r", "e", " ", "d", "e", "t", "a", "i", "l", "s", " ", "a", "b",
       "o", "u", "t", " ", "y", "o", "u", "r", " ", "s", "p", "e", "c", "i",
       "f", "i", "c", " ", "b", "u", "s", "i", "n", "e", "s", "s", " ", "n",
       "e", "e", "d", "s", " ", "o", "r", " ", "g", "o", "a", "l", "s", "?">>]
\* the replies of generate_content when the provider call fails
R_error ==
  <<"I", " ", "e", "n", "c", "o", "u", "n", "t", "e", "r", "e", "d", " ",
    "a", "n", " ", "e", "r", "r", "o", "r", " ", "w", "h", "i", "l", "e",
    " ", "p", "r", "o", "c", "e", "s", "s", "i", "n", "g", " ", "y", "o",
    "u", "r", " ", "r", "e", "q", "u", "e", "s", "t", ".", " ", "P", "l",
    "e", "a", "s", "e", " ", "t", "r", "y", " ", "a", "g", "a", "i", "n",
    " ", "l", "a", "t", "e", "r", ".">>
R_unexpected ==
  <<"I", "'", "m", " ", "s", "o", "r", "r", "y", ",", " ", "I", " ", "e",
    "n", "c", "o", "u", "n", "t", "e", "r", "e", "d", " ", "a", "n", " ",
    "i", "s", "s", "u", "e", " ", "p", "r", "o", "c", "e", "s", "s", "i",
    "n", "g", " ", "y", "o", "u", "r", " ", "r", "e", "q", "u", "e", "s",
    "t", ".">>

\* GeminiService._generate_mock_response: <<response, chain_of_thought>>; the
\* chain of thought is carried as the name of the branch taken
_generate_mock_response(prompt, system_instruction) ==
  LET prompt_lower == Lower(prompt)
  IN  IF Contains(prompt_lower, mock_keyword.hello) \/ Contains(prompt_lower, mock_keyword.hi)
      THEN <<mock_response.greeting, [kind |-> "mock", branch |-> "greeting"]>>
      ELSE IF Contains(prompt_lower, mock_keyword.blueprint)
      THEN <<mock_response.blueprint, [kind |-> "mock", branch |-> "blueprint"]>>
      ELSE IF Contains(prompt_lower, mock_keyword.agent)
      THEN <<mock_response.agent, [kind |-> "mock", branch |-> "agent"]>>
      ELSE IF Contains(prompt_lower, mock_keyword.workflow)
      THEN <<mock_response.workflow, [kind |-> "mock", branch |-> "workflow"]>>
      ELSE <<mock_response.general_before \o prompt \o mock_response.general_after,
             [kind |-> "mock", branch |-> "general"]>>

\* what the provider does with one request: the post raises (timeout, no
\* connection), or it returns a response with a status code and a body
\* a body that is no JSON document: response.json() raises
NoJson == [not_json |-> TRUE]
Replies ==
  { [kind |-> "raises"],
    [kind |-> "response", status_code |-> 500, body |-> NoJson],
    [kind |-> "response", status_code |-> 200, body |-> NoJson],
    [kind |-> "response", status_code |-> 200,
     body |-> [error |-> "quota"]],
    [kind |-> "response", status_code |-> 200,
     body |-> [candidates |-> <<>>]],
    [kind |-> "response", status_code |-> 200,
     body |-> [candidates |->
                 <<[content |->
                     [parts |->
                        <<[text |-> <<"S", "u", "r", "e", ".">>]>>]]>>]] }

\* GeminiService.generate_content: <<output_text, chain_of_thought>>, the
\* chain of thought carried as the kind of answer
generate_content(prompt, system_instruction, temperature, reply) ==
  LET \* output_text += part["text"] over the parts that have a text
      RECURSIVE PartsText(_)
      PartsText(parts) ==
        IF parts = <<>> THEN <<>>
        ELSE (IF "text" \in DOMAIN parts[1] THEN parts[1].text ELSE <<>>)
               \o PartsText(Tail(parts))
  IN
  IF use_mock THEN _generate_mock_response(prompt, system_instruction)
  ELSE IF reply.kind = "raises"
  THEN <<R_error, [kind |-> "Exception"]>>
  ELSE IF reply.status_code # 200
  THEN <<R_error, [kind |-> "API Error", status_code |-> reply.status_code]>>
  ELSE IF reply.body = NoJson
  THEN <<R_error, [kind |-> "Exception"]>>
  ELSE IF "candidates" \in DOMAIN reply.body /\ reply.body.candidates # <<>>
  THEN LET candidate == reply.body.candidates[1]
       IN  << IF "content" \in DOMAIN candidate
                 /\ "parts" \in DOMAIN candidate.content
              THEN PartsText(candidate.content.parts) ELSE <<>>,
              [kind |-> "API Response", temperature |-> temperature] >>
  ELSE <<R_unexpected, [kind |-> "Unexpected API response format"]>>

\* ------------------------------------------ memory context of an executor
\* the loop `for memory in more: if memory['id'] not in memory_ids:
\* memories.append(memory)`, which, when add holds, also has
\* `memory_ids.add(memory['id'])`: <<memories, memory_ids>> after the loop
RECURSIVE AppendUnseen(_, _, _, _)
AppendUnseen(memories, memory_ids, more, add) ==
  IF more = <<>> THEN <<memories, memory_ids>>
  ELSE IF more[1].id \notin memory_ids
       THEN AppendUnseen(Append(memories, more[1]),
                         IF add THEN memory_ids \cup {more[1].id}
                         ELSE memory_ids,
                         Tail(more), add)
       ELSE AppendUnseen(memories, memory_ids, Tail(more), add)

\* set(memory['id'] for memory in memories)
IdSet(memories) == {memories[i].id : i \in 1..Len(memories)}

\* the merge of the generic executor without its test of memory_ids
GenericMemories_no_dedup(recent, important) == recent \o important

\* _execute_generic_agent: recent, then the important ones not yet there
GenericMemories(recent, important) ==
  AppendUnseen(recent, IdSet(recent), important, TRUE)[1]

\* _execute_seo_agent: the loop over important_memories does not add to
\* memory_ids; the loop over search_memories does
SeoMemories(recent, important, search) ==
  LET memory_ids == IdSet(recent)
      step1 == AppendUnseen(recent, memory_ids, important, FALSE)
  IN  AppendUnseen(step1[1], step1[2], search, TRUE)[1]

\* _execute_business_agent: recent, then the search results not yet there
BusinessMemories(recent, search) ==
  AppendUnseen(recent, IdSet(recent), search, TRUE)[1]

\* _execute_customer_support_agent: recent, then the search results
SupportMemories(recent, search) ==
  AppendUnseen(recent, IdSet(recent), search, TRUE)[1]

\* _execute_data_science_agent: recent, then important, then search results
DataScienceMemories(recent, important, search) ==
  LET step1 == AppendUnseen(recent, IdSet(recent), important, TRUE)
  IN  AppendUnseen(step1[1], step1[2], search, TRUE)[1]

\* lists a retrieval with limit n can return, as far as the ids go: up to n
\* records with different ids. The records of the recent list are named
\* 1, 2, .. in its order.
FirstIds(n) == {[i \in 1..k |-> [id |-> i]] : k \in 0..n}
ListsOfIds(n) ==
  {[i \in 1..Len(s) |-> [id |-> s[i]]] :
     s \in {t \in UNION {[1..k -> 1..MaxIds] : k \in 0..n} :
              \A i, j \in 1..Len(t) : i # j => t[i] # t[j]}}

\* what an executor made of the lists it fetched
Context(executor, recent, important, search, memories) ==
  /\ execution' = <<[executor |-> executor, recent |-> recent,
                     important |-> important, search |-> search,
                     memories |-> memories]>>
  /\ UNCHANGED <<pending, backend_vars, redis_client, rdb, memory_index, memory_importance,
                 memory_cache, inproc, used, now, failures, dispatch,
                 use_mock, response, extraction>>

\* the memory context of each executor, for any lists its retrievals
\* return; one call, from the initial state
GenericContext ==
  /\ execution = <<>>
  /\ \E recent \in FirstIds(5), important \in ListsOfIds(3) :
       Context("_execute_generic_agent", recent, important, <<>>,
               GenericMemories(recent, important))

SeoContext ==
  /\ execution = <<>>
  /\ \E recent \in FirstIds(3), important \in ListsOfIds(2),
        search \in ListsOfIds(2) :
       Context("_execute_seo_agent", recent, important, search,
               SeoMemories(recent, important, search))

BusinessContext ==
  /\ execution = <<>>
  /\ \E recent \in FirstIds(5), search \in ListsOfIds(3) :
       Context("_execute_business_agent", recent, <<>>, search,
               BusinessMemories(recent, search))

SupportContext ==
  /\ execution = <<>>
  /\ \E recent \in FirstIds(3), search \in ListsOfIds(2) :
       Context("_execute_customer_support_agent", recent, <<>>, search,
               SupportMemories(recent, search))

DataScienceContext ==
  /\ execution = <<>>
  /\ \E recent \in FirstIds(3), important \in ListsOfIds(2),
        search \in ListsOfIds(2) :
       Context("_execute_data_science_agent", recent, important, search,
               DataScienceMemories(recent, important, search))

NextContext ==
  \/ GenericContext
  \/ SeoContext
  \/ BusinessContext
  \/ SupportContext
  \/ DataScienceContext


\* ------------------------------------------------------- the executors
\* the pieces of the prompts and of the stored conversations
memory_context_header ==
  [generic |->
     <<"\n", "R", "e", "l", "e", "v", "a", "n", "t", " ", "c", "o", "n", "t",
       "e", "x", "t", " ", "f", "r", "o", "m", " ", "p", "r", "e", "v", "i",
       "o", "u", "s", " ", "i", "n", "t", "e", "r", "a", "c", "t", "i", "o",
       "n", "s", ":", "\n">>,
   seo |->
     <<"\n", "R", "e", "l", "e", "v", "a", "n", "t", " ", "S", "E", "O", " ",
       "c", "o", "n", "t", "e", "x", "t", " ", "f", "r", "o", "m", " ", "p",
       "r", "e", "v", "i", "o", "u", "s", " ", "i", "n", "t", "e", "r", "a",
       "c", "t", "i", "o", "n", "s", ":", "\n">>,
   business |->
     <<"\n", "R", "e", "l", "e", "v", "a", "n", "t", " ", "b", "u", "s", "i",
       "n", "e", "s", "s", " ", "c", "o", "n", "t", "e", "x", "t", " ", "f",
       "r", "o", "m", " ", "p", "r", "e", "v", "i", "o", "u", "s", " ", "i",
       "n", "t", "e", "r", "a", "c", "t", "i", "o", "n", "s", ":", "\n">>,
   support |->
     <<"\n", "P", "r", "e", "v", "i", "o", "u", "s", " ", "c", "u", "s", "t",
       "o", "m", "e", "r", " ", "i", "n", "t", "e", "r", "a", "c", "t", "i",
       "o", "n", "s", ":", "\n">>,
   data_science |->
     <<"\n", "R", "e", "l", "e", "v", "a", "n", "t", " ", "d", "a", "t", "a",
       " ", "a", "n", "a", "l", "y", "s", "i", "s", " ", "c", "o", "n", "t",
       "e", "x", "t", " ", "f", "r", "o", "m", " ", "p", "r", "e", "v", "i",
       "o", "u", "s", " ", "i", "n", "t", "e", "r", "a", "c", "t", "i", "o",
       "n", "s", ":", "\n">>]

\* the labels of the lines of a memory context
memory_context_label ==
  [previous_query |->
     <<".", " ", "P", "r", "e", "v", "i", "o", "u", "s", " ", "q", "u", "e",
       "r", "y", ":", " ">>,
   customer |->
     <<".", " ", "C", "u", "s", "t", "o", "m", "e", "r", ":", " ">>,
   response |->
     <<" ", " ", " ", "R", "e", "s", "p", "o", "n", "s", "e", ":", " ">>,
   key_insights |->
     <<" ", " ", " ", "K", "e", "y", " ", "i", "n", "s", "i", "g", "h", "t",
       "s", ":", " ">>,
   support |->
     <<" ", " ", " ", "S", "u", "p", "p", "o", "r", "t", ":", " ">>,
   key_findings |->
     <<" ", " ", " ", "K", "e", "y", " ", "f", "i", "n", "d", "i", "n", "g",
       "s", ":", " ">>,
   dots |->
     <<".", ".", ".", "\n">>]

\* the fixed parts of json.dumps(conversation_memory): the keys of the
\* conversation, the opening of each archetype's context, the literals and
\* the keys of a request context
json_text ==
  [user_input |->
     <<"{", "\"", "u", "s", "e", "r", "_", "i", "n", "p", "u", "t", "\"", ":",
       " ">>,
   agent_response |->
     <<",", " ", "\"", "a", "g", "e", "n", "t", "_", "r", "e", "s", "p", "o",
       "n", "s", "e", "\"", ":", " ">>,
   context |->
     <<",", " ", "\"", "c", "o", "n", "t", "e", "x", "t", "\"", ":", " ">>,
   seo |->
     <<"{", "\"", "t", "y", "p", "e", "\"", ":", " ", "\"", "s", "e", "o",
       "\"", ",", " ", "\"", "q", "u", "e", "r", "y", "_", "k", "e", "y", "w",
       "o", "r", "d", "s", "\"", ":", " ">>,
   business |->
     <<"{", "\"", "t", "y", "p", "e", "\"", ":", " ", "\"", "b", "u", "s", "i",
       "n", "e", "s", "s", "_", "a", "n", "a", "l", "y", "s", "i", "s", "\"",
       ",", " ", "\"", "t", "o", "p", "i", "c", "_", "k", "e", "y", "w", "o",
       "r", "d", "s", "\"", ":", " ">>,
   support |->
     <<"{", "\"", "t", "y", "p", "e", "\"", ":", " ", "\"", "c", "u", "s", "t",
       "o", "m", "e", "r", "_", "s", "u", "p", "p", "o", "r", "t", "\"", ",",
       " ", "\"", "i", "s", "s", "u", "e", "_", "k", "e", "y", "w", "o", "r",
       "d", "s", "\"", ":", " ">>,
   data_science |->
     <<"{", "\"", "t", "y", "p", "e", "\"", ":", " ", "\"", "d", "a", "t", "a",
       "_", "s", "c", "i", "e", "n", "c", "e", "\"", ",", " ", "\"", "a", "n",
       "a", "l", "y", "s", "i", "s", "_", "k", "e", "y", "w", "o", "r", "d",
       "s", "\"", ":", " ">>,
   true |->
     <<"t", "r", "u", "e">>,
   false |->
     <<"f", "a", "l", "s", "e">>,
   key_agent_name |->
     <<"\"", "a", "g", "e", "n", "t", "_", "n", "a", "m", "e", "\"", ":", " ">>,
   key_memory_enabled |->
     <<"\"", "m", "e", "m", "o", "r", "y", "_", "e", "n", "a", "b", "l", "e",
       "d", "\"", ":", " ">>,
   key_user_id |->
     <<"\"", "u", "s", "e", "r", "_", "i", "d", "\"", ":", " ">>,
   key_executionId |->
     <<"\"", "e", "x", "e", "c", "u", "t", "i", "o", "n", "I", "d", "\"", ":",
       " ">>]
\* the temperature of each executor's generation call, in tenths
temperature_generic == 7
temperature_seo == 5
\* a business temperature that follows the number of memories stored
temperature_business_by_memory == 3 + Cardinality(used)
temperature_business == 3
temperature_support == 6
temperature_data_science == 3
temperature_simulation == 6

\* the importance each executor stores its conversation with, in hundredths
importance_generic == 70
importance_seo == 80
importance_business == 90
\* a support importance that is the SEO one
importance_support_as_seo == importance_seo
importance_support == 75
importance_data_science == 85

\* the metadata each executor stores its conversation with
conversation_metadata ==
  [generic |->
     "{'type': 'conversation'}",
   seo |->
     "{'type': 'seo_conversation'}",
   business |->
     "{'type': 'business_conversation'}",
   support |->
     "{'type': 'support_conversation'}",
   data_science |->
     "{'type': 'data_analysis'}"]

\* json.dumps of the request context: its keys in the order of the request
\* (the contexts here have agent_name, memory_enabled, user_id, executionId)
JsonDumpsContext(context) ==
  LET Item(key, label, text) ==
        IF key \in DOMAIN context THEN <<label \o text>> ELSE <<>>
      items ==
        Item("agent_name", json_text.key_agent_name,
             IF "agent_name" \in DOMAIN context
             THEN JsonString(context["agent_name"]) ELSE <<>>)
        \o Item("memory_enabled", json_text.key_memory_enabled,
                IF "memory_enabled" \in DOMAIN context
                   /\ context["memory_enabled"] THEN json_text.true ELSE json_text.false)
        \o Item("user_id", json_text.key_user_id,
                IF "user_id" \in DOMAIN context
                THEN JsonString(context["user_id"]) ELSE <<>>)
        \o Item("executionId", json_text.key_executionId,
                IF "executionId" \in DOMAIN context
                THEN JsonString(context["executionId"]) ELSE <<>>)
      RECURSIVE Commas(_)
      Commas(list) ==
        IF list = <<>> THEN <<>>
        ELSE IF Len(list) = 1 THEN list[1]
        ELSE list[1] \o <<",", " ">> \o Commas(Tail(list))
  IN  <<"{">> \o Commas(items) \o <<"}">>

\* json.dumps(conversation_memory), context_json being the dumped context
JsonDumpsConversation(user_input, agent_response, context_json) ==
  json_text.user_input \o JsonString(user_input)
    \o json_text.agent_response \o JsonString(agent_response)
    \o json_text.context \o context_json \o <<"}">>

\* json.loads(content) of a stored conversation, as far as the executors
\* read it: <<[user_input, agent_response]>>, or <<>> for a content that is
\* not such a document (the executors then show the content itself)
JsonLoadsConversation(content) ==
  IF ~StartsWith(content, json_text.user_input \o <<"\"">>) THEN <<>>
  ELSE LET ui == JsonStringAt(content, Len(json_text.user_input) + 1)
           at == ui[2] + Len(json_text.agent_response)
       IN  IF SubSeq(content, ui[2], at) # json_text.agent_response \o <<"\"">>
           THEN <<>>
           ELSE <<[user_input |-> ui[1],
                   agent_response |-> JsonStringAt(content, at)[1]]>>

\* memory_context of a specialized executor: a stored conversation is shown
\* as its query and the first answer_len characters of its answer, any other
\* content as its first content_len characters
RECURSIVE SpecializedLines(_, _, _, _, _, _)
SpecializedLines(memories, i, query, answer, answer_len, content_len) ==
  IF i > Len(memories) THEN <<>>
  ELSE LET content  == memories[i].content
           mem_data == IF StartsWith(content, <<"{">>)
                       THEN JsonLoadsConversation(content) ELSE <<>>
           line == IF mem_data # <<>>
                   THEN Str(i) \o query \o mem_data[1].user_input \o <<"\n">>
                          \o answer
                          \o SliceTo(mem_data[1].agent_response, answer_len)
                          \o memory_context_label.dots
                   ELSE Str(i) \o <<".", " ">> \o SliceTo(content, content_len)
                          \o memory_context_label.dots
       IN  line \o SpecializedLines(memories, i + 1, query, answer,
                                    answer_len, content_len)

\* the number of retrievals of an execution that fail
Faults(fails) == Cardinality({k \in DOMAIN fails : fails[k]})

\* what every executor does after it has gathered its memories: the
\* generation call on input and memory context and, for an agent with
\* memory, the store_memory call of the conversation
Generate(executor, input_text, context, agent_config, fails, recent, important, search, memories, memory_context, temperature, reply, context_json, metadata, importance) ==
  LET \* the records of a list by their ids alone
      IdsOnly(list) == [i \in 1..Len(list) |-> [id |-> list[i].id]]
      \* str(uuid.uuid4()) of store_memory: an id not in use; the ids differ
      \* in nothing else, so the lowest one stands for any of them
      FreshId == {i \in MemIds \ used : \A j \in MemIds \ used : i <= j}
      full_prompt == input_text \o <<"\n", "\n">> \o memory_context
      generated   == generate_content(full_prompt, executor, temperature,
                                      reply)
      content     == JsonDumpsConversation(input_text, generated[1],
                                           context_json)
      call        == [executor |-> executor, agent_id |-> agent_config.id,
                      memory |-> agent_config.memory,
                      recent |-> IdsOnly(recent),
                      important |-> IdsOnly(important),
                      search |-> IdsOnly(search),
                      memories |-> IdsOnly(memories),
                      prompt |-> full_prompt, temperature |-> temperature,
                      reply |-> reply, output |-> generated[1],
                      chain_of_thought |-> generated[2]]
  IN  IF agent_config.memory
      THEN \E memory_id \in FreshId, failAt \in 0..3 :
             /\ failAt # 0 => Faults(fails) + failures < MaxFailures
             /\ store_memory_call(agent_config.id, content, "interaction",
                                  metadata, importance,
                                  Get(context, "user_id", NoneVal), 0,
                                  memory_id, failAt)
             /\ execution' = <<call @@ [stored |-> <<memory_id>>]>>
      ELSE /\ execution' = <<call @@ [stored |-> <<>>]>>
           /\ UNCHANGED <<rdb, memory_index, memory_importance, memory_cache,
                          inproc, used, failures>>

\* _execute_generic_agent, had it retrieved the recent memories without
\* asking agent_config['memory']
_execute_generic_agent_unguarded(input_text, context, agent_config, fails, reply) ==
  LET recent == retrieve_recent_memories(agent_config.id, 5, fails.recent)
      RECURSIVE GenericLines(_, _)
      GenericLines(list, i) ==
        IF i > Len(list) THEN <<>>
        ELSE Str(i) \o <<".", " ">> \o list[i].content \o <<"\n">>
               \o GenericLines(list, i + 1)
      memory_context == IF recent # <<>>
                        THEN memory_context_header.generic \o GenericLines(recent, 1)
                        ELSE <<>>
  IN  Generate("_execute_generic_agent", input_text, context, agent_config, fails,
               recent, <<>>, <<>>, recent, memory_context,
               temperature_generic, reply, JsonDumpsContext(context),
               conversation_metadata.generic, importance_generic)

\* AgentManager._execute_generic_agent; fails: which retrievals have a
\* Redis call that raises. The voice synthesis that may follow changes
\* nothing and cannot raise.
_execute_generic_agent(input_text, context, agent_config, fails, reply) ==
  LET recent    == IF agent_config.memory
                   THEN retrieve_recent_memories(agent_config.id, 5,
                                                 fails.recent)
                   ELSE <<>>
      important == IF agent_config.memory
                   THEN retrieve_important_memories(agent_config.id, 3,
                                                    fails.important)
                   ELSE <<>>
      memories  == GenericMemories(recent, important)
      \* f"{i}. {memory['content']}\n" for the memories from place i on
      RECURSIVE GenericLines(_, _)
      GenericLines(list, i) ==
        IF i > Len(list) THEN <<>>
        ELSE Str(i) \o <<".", " ">> \o list[i].content \o <<"\n">>
               \o GenericLines(list, i + 1)
      memory_context == IF memories # <<>>
                        THEN memory_context_header.generic \o GenericLines(memories, 1)
                        ELSE <<>>
  IN  Generate("_execute_generic_agent", input_text, context, agent_config, fails,
               recent, important, <<>>, memories, memory_context,
               temperature_generic, reply, JsonDumpsContext(context),
               conversation_metadata.generic, importance_generic)

\* AgentManager._execute_seo_agent; unique_keywords: the order of
\* list(set(keywords)) in extract_keywords
_execute_seo_agent(input_text, context, agent_config, fails, reply, unique_keywords) ==
  LET recent    == IF agent_config.memory
                   THEN retrieve_recent_memories(agent_config.id, 3,
                                                 fails.recent)
                   ELSE <<>>
      important == IF agent_config.memory
                   THEN retrieve_important_memories(agent_config.id, 2,
                                                    fails.important)
                   ELSE <<>>
      search    == IF agent_config.memory
                   THEN search_memories(agent_config.id, input_text, 2,
                                        fails.search)
                   ELSE <<>>
      memories  == SeoMemories(recent, important, search)
      memory_context ==
        IF memories # <<>>
        THEN memory_context_header.seo \o SpecializedLines(memories, 1, memory_context_label.previous_query,
                                       memory_context_label.response, 100, 150)
        ELSE <<>>
  IN  Generate("_execute_seo_agent", input_text, context, agent_config, fails,
               recent, important, search, memories, memory_context,
               temperature_seo, reply,
               json_text.seo \o JsonList(extract_keywords(input_text, unique_keywords))
                 \o <<"}">>,
               conversation_metadata.seo, importance_seo)

\* AgentManager._execute_business_agent
_execute_business_agent(input_text, context, agent_config, fails, reply, unique_keywords) ==
  LET recent    == IF agent_config.memory
                   THEN retrieve_recent_memories(agent_config.id, 5,
                                                 fails.recent)
                   ELSE <<>>
      search    == IF agent_config.memory
                   THEN search_memories(agent_config.id, input_text, 3,
                                        fails.search)
                   ELSE <<>>
      memories  == BusinessMemories(recent, search)
      memory_context ==
        IF memories # <<>>
        THEN memory_context_header.business \o SpecializedLines(memories, 1, memory_context_label.previous_query,
                                            memory_context_label.key_insights, 150, 150)
        ELSE <<>>
  IN  Generate("_execute_business_agent", input_text, context, agent_config, fails,
               recent, <<>>, search, memories, memory_context,
               temperature_business, reply,
               json_text.business
                 \o JsonList(extract_keywords(input_text, unique_keywords))
                 \o <<"}">>,
               conversation_metadata.business, importance_business)

\* AgentManager._execute_customer_support_agent
_execute_customer_support_agent(input_text, context, agent_config, fails, reply, unique_keywords) ==
  LET recent    == IF agent_config.memory
                   THEN retrieve_recent_memories(agent_config.id, 3,
                                                 fails.recent)
                   ELSE <<>>
      search    == IF agent_config.memory
                   THEN search_memories(agent_config.id, input_text, 2,
                                        fails.search)
                   ELSE <<>>
      memories  == SupportMemories(recent, search)
      memory_context ==
        IF memories # <<>>
        THEN memory_context_header.support \o SpecializedLines(memories, 1, memory_context_label.customer,
                                           memory_context_label.support, 100, 100)
        ELSE <<>>
  IN  Generate("_execute_customer_support_agent", input_text, context,
               agent_config, fails, recent, <<>>, search, memories, memory_context,
               temperature_support, reply,
               json_text.support
                 \o JsonList(extract_keywords(input_text, unique_keywords))
                 \o <<"}">>,
               conversation_metadata.support, importance_support)

\* AgentManager._execute_data_science_agent
_execute_data_science_agent(input_text, context, agent_config, fails, reply, unique_keywords) ==
  LET recent    == IF agent_config.memory
                   THEN retrieve_recent_memories(agent_config.id, 3,
                                                 fails.recent)
                   ELSE <<>>
      important == IF agent_config.memory
                   THEN retrieve_important_memories(agent_config.id, 2,
                                                    fails.important)
                   ELSE <<>>
      search    == IF agent_config.memory
                   THEN search_memories(agent_config.id, input_text, 2,
                                        fails.search)
                   ELSE <<>>
      memories  == DataScienceMemories(recent, important, search)
      memory_context ==
        IF memories # <<>>
        THEN memory_context_header.data_science \o SpecializedLines(memories, 1, memory_context_label.previous_query,
                                        memory_context_label.key_findings, 150, 150)
        ELSE <<>>
  IN  Generate("_execute_data_science_agent", input_text, context,
               agent_config, fails, recent, important, search, memories,
               memory_context, temperature_data_science, reply,
               json_text.data_science
                 \o JsonList(extract_keywords(input_text, unique_keywords))
                 \o <<"}">>,
               conversation_metadata.data_science, importance_data_science)

\* AgentManager._execute_simulation_agent: the prompt is the input alone,
\* the agent's config is not read and nothing is stored
_execute_simulation_agent(input_text, context, agent_config, reply) ==
  LET generated == generate_content(input_text, "_execute_simulation_agent",
                                    temperature_simulation, reply)
  IN  /\ execution' =
           <<[executor |-> "_execute_simulation_agent",
              agent_id |-> agent_config.id, memory |-> agent_config.memory,
              recent |-> <<>>, important |-> <<>>, search |-> <<>>,
              memories |-> <<>>, prompt |-> input_text,
              temperature |-> temperature_simulation, reply |-> reply,
              output |-> generated[1], chain_of_thought |-> generated[2],
              stored |-> <<>>]>>
      /\ UNCHANGED <<rdb, memory_index, memory_importance, memory_cache,
                     inproc, used, failures>>

\* AgentManager.execute_agent with the executor it calls: the whole call
AgentManager_execute_agent(agent_id, input_text, context, fails, reply, unique_keywords) ==
  LET agent_config == _get_agent_config(agent_id, context)
      executor     == Executor(agent_id)
  IN  CASE executor = "_execute_seo_agent" ->
             _execute_seo_agent(input_text, context, agent_config, fails,
                                reply, unique_keywords)
        [] executor = "_execute_business_agent" ->
             _execute_business_agent(input_text, context, agent_config,
                                     fails, reply, unique_keywords)
        [] executor = "_execute_customer_support_agent" ->
             _execute_customer_support_agent(input_text, context,
                                             agent_config, fails, reply,
                                             unique_keywords)
        [] executor = "_execute_data_science_agent" ->
             _execute_data_science_agent(input_text, context, agent_config,
                                         fails, reply, unique_keywords)
        [] executor = "_execute_simulation_agent" ->
             _execute_simulation_agent(input_text, context, agent_config,
                                       reply)
        [] OTHER ->
             _execute_generic_agent(input_text, context, agent_config, fails,
                                    reply)

\* request inputs of the executions
InputTexts == { <<"h", "e", "l", "l", "o">>, <<"t", "a", "x">> }
ExecAgentIds ==
  { Id_helper_bot, Id_seo_writer_1, Id_analyst_7, Id_customer_care,
    Id_data_pipeline, Id_agent_simulator }
ExecContexts == { EmptyContext, "memory_enabled" :> FALSE }

\* the retrievals that can fail: those the executor of the agent makes, when
\* there is a Redis client, within the budget of failures
FailsOf(agent_id, context) ==
  LET Flags == [recent : BOOLEAN, important : BOOLEAN, search : BOOLEAN]
      made == IF ~redis_client \/ ~_get_agent_config(agent_id, context).memory
              THEN {}
              ELSE CASE Executor(agent_id) = "_execute_generic_agent" ->
                          {"recent", "important"}
                     [] Executor(agent_id) \in
                          {"_execute_business_agent",
                           "_execute_customer_support_agent"} ->
                          {"recent", "search"}
                     [] Executor(agent_id) = "_execute_simulation_agent" -> {}
                     [] OTHER -> {"recent", "important", "search"}
  IN  {f \in Flags : /\ \A k \in DOMAIN f : f[k] => k \in made
                      /\ Faults(f) + failures <= MaxFailures}

\* the provider is asked only when there is an API key
RepliesOf == IF use_mock THEN {[kind |-> "not asked"]} ELSE Replies

\* a call of AgentManager.execute_agent, while the store has room and for
\* no more than MaxAgents agents with memories; a run is followed up to the
\* first answer of the endpoint
Execute ==
  \E agent_id \in ExecAgentIds, input_text \in InputTexts,
     context \in ExecContexts :
    /\ response = <<>>
    /\ Cardinality(used) < MaxMem
    /\ Cardinality({a \in ExecAgentIds : a \in DOMAIN inproc}
                     \cup {agent_id}) <= MaxAgents
    /\ \E fails \in FailsOf(agent_id, context), reply \in RepliesOf,
          unique_keywords \in SetOrders(Keywords(input_text)) :
         /\ AgentManager_execute_agent(agent_id, input_text, context, fails,
                                       reply, unique_keywords)
         /\ UNCHANGED <<pending, backend_vars, redis_client, now, dispatch, use_mock, response,
                        extraction>>

\* the names bound in main.py when a request is handled: its imports and
\* the names it defines
MainGlobals ==
  { "os", "json", "logging", "traceback", "Dict", "Any", "Optional", "List",
    "Union", "BaseModel", "Field", "FastAPI", "HTTPException", "Body",
    "Request", "JSONResponse", "CORSMiddleware", "asynccontextmanager",
    "load_dotenv", "get_memory_service", "get_agent_manager",
    "get_gemini_service", "get_voice_service", "logger", "AgentInput",
    "AgentOutput", "AgentConfig", "memory_service", "agent_manager",
    "gemini_service", "voice_service", "lifespan", "app", "read_root",
    "execute_agent", "configure_agent", "clear_agent_memory",
    "get_agent_memories", "synthesize_speech", "generate_blueprint" }

\* POST /agent/{agent_id}/execute (execute_agent of main.py). The default of
\* context.get("executionId", f"exec-{int(time.time())}") is evaluated
\* whether or not the context has the key, and evaluating the name `time`
\* raises NameError when main.py has not bound it; the handler's except
\* branch answers every exception with status 500.
main_execute_agent(agent_id, input_text, context) ==
  IF "time" \in MainGlobals
  THEN LET \* f"exec-{int(time.time())}"
           execution_id == <<"e", "x", "e", "c", "-">> \o Str(now)
           context2 == IF "executionId" \in DOMAIN context THEN context
                       ELSE context @@ ("executionId" :> execution_id)
       IN  \E fails \in FailsOf(agent_id, context2), reply \in RepliesOf,
              unique_keywords \in SetOrders(Keywords(input_text)) :
             /\ AgentManager_execute_agent(agent_id, input_text, context2,
                                           fails, reply, unique_keywords)
             /\ response' =
                  <<[status_code |-> 200, status |-> "completed",
                     output |-> execution'[1].output]>>
             /\ UNCHANGED <<pending, backend_vars, redis_client, now, dispatch, use_mock,
                            extraction>>
  ELSE /\ response' =
            <<[status_code |-> 500, status |-> "error",
               output |-> <<"N", "a", "m", "e", "E", "r", "r", "o", "r">>]>>
       /\ UNCHANGED <<pending, backend_vars, redis_client, rdb, memory_index, memory_importance,
                      memory_cache, inproc, used, now, failures, dispatch,
                      use_mock, execution, extraction>>

\* a request to the endpoint
Request ==
  \E agent_id \in ExecAgentIds, input_text \in InputTexts,
     context \in ExecContexts :
    /\ response = <<>>
    /\ main_execute_agent(agent_id, input_text, context)

\* AgentManager.__init__ with its services, for the agents of the requests:
\* with or without a Redis client, with or without a Gemini API key
InitAgents ==
  /\ redis_client \in BOOLEAN
  /\ use_mock \in BOOLEAN
  /\ rdb = [a \in ExecAgentIds |-> [k \in {} |-> 0]]
  /\ memory_index = [a \in ExecAgentIds |-> EmptyZ]
  /\ memory_importance = [a \in ExecAgentIds |-> EmptyZ]
  /\ memory_cache = [a \in {} |-> <<>>]
  /\ inproc = [a \in {} |-> <<>>]
  /\ used = {}
  /\ now = 0
  /\ failures = 0
  /\ dispatch = <<>>
  /\ execution = <<>>
  /\ response = <<>>
  /\ extraction = <<>>
  /\ pending = <<>>
  /\ redis_available = FALSE
  /\ short_memory = <<>>
  /\ supabase = <<>>

NextAgents ==
  \/ Execute
  \/ Request

\* ------------------------------------------- concurrent requests
\* The service's methods are coroutines of one event loop: a call runs
\* alone up to each awaited Redis call and other calls run while it waits.
\* A step of a call is one Redis call together with the code that follows
\* it up to the next one; a Redis call that raises leads into the except
\* branch, which runs to the return without waiting.
MaxCalls == 3
Requests == 1..MaxCalls
RaceAgent == "a1"

\* a request that has not called yet
NoCall ==
  [op |-> "none", pc |-> 0, memory_id |-> 0, importance |-> 0,
   expiration |-> 0, memory |-> <<>>, memory_ids |-> <<>>, known |-> {},
   failed |-> FALSE, returned |-> FALSE, result |-> FALSE,
   overlapped |-> FALSE]

\* the calls that have begun and not returned
InFlight == {q \in DOMAIN pending : pending[q].op # "none" /\ ~pending[q].returned}

\* the ids that store_memory calls have returned to their callers
ReturnedIds ==
  {pending[q].memory_id : q \in {r \in DOMAIN pending :
      pending[r].op = "store_memory" /\ pending[r].returned}}

\* request p, the next to arrive, begins call c; the calls in flight now
\* overlap with it
Begin(p, c) ==
  /\ pending[p].op = "none"
  /\ \A q \in Requests : q < p => pending[q].op # "none"
  /\ pending' = [q \in DOMAIN pending |->
                   IF q = p THEN [c EXCEPT !.overlapped = InFlight # {}]
                   ELSE IF q \in InFlight
                        THEN [pending[q] EXCEPT !.overlapped = TRUE]
                        ELSE pending[q]]

\* the call of request p goes on to its next Redis call, or returns
Proceed(p, last, result) ==
  pending' = [pending EXCEPT ![p] =
                IF last THEN [@ EXCEPT !.returned = TRUE, !.result = result]
                ELSE [@ EXCEPT !.pc = @ + 1]]

\* the call of request p returns from its except branch
Failed(p, result) ==
  /\ failures < MaxFailures
  /\ failures' = failures + 1
  /\ pending' = [pending EXCEPT ![p] =
                   [@ EXCEPT !.returned = TRUE, !.failed = TRUE,
                             !.result = result]]

\* store_memory is called: uuid4, the timestamp and the memory dict; without
\* a Redis client the whole call is _store_in_memory
CallStoreMemory(p) ==
  \E importance \in Importances, expiration \in Expirations,
     memory_id \in MemIds \ used :
    LET memory == NewMemory(memory_id, RaceAgent, <<"b">>, "interaction",
                            NoneVal, importance, NoneVal, now)
        c == [NoCall EXCEPT !.op = "store_memory", !.pc = 1,
                !.memory_id = memory_id, !.importance = importance,
                !.expiration = expiration, !.memory = <<memory>>,
                !.returned = ~redis_client, !.result = TRUE]
    IN  /\ \A i \in MemIds \ used : memory_id <= i
        /\ Begin(p, c)
        /\ used' = used \cup {memory_id}
        /\ memory_cache' =
             IF redis_client THEN memory_cache
             ELSE _store_in_memory(memory_cache, RaceAgent, memory_id, memory)
        /\ UNCHANGED <<redis_client, rdb, memory_index, memory_importance,
                       inproc, now, failures, dispatch, agent_vars,
                       backend_vars>>

\* a step of store_memory: lines 94, 97-98, 101-104 or 107-110, or the
\* except branch
StepStoreMemory(p) ==
  LET c      == pending[p]
      calls  == StoreCalls(c.expiration)
      call   == calls[c.pc]
      memory == c.memory[1]
  IN  /\ p \in InFlight
      /\ c.op = "store_memory"
      /\ \/ /\ Failed(p, TRUE)
            /\ memory_cache' = _store_in_memory(memory_cache, RaceAgent,
                                                c.memory_id, memory)
            /\ UNCHANGED <<rdb, memory_index, memory_importance>>
         \/ /\ Proceed(p, c.pc = Len(calls), TRUE)
            /\ rdb' = [rdb EXCEPT ![RaceAgent] =
                         CASE call = "set" ->
                                RSet(@, c.memory_id, JsonDumps(memory))
                           [] call = "expire" -> RExpire(@, c.memory_id)
                           [] OTHER -> @]
            /\ memory_index' =
                 IF call = "zadd_index"
                 THEN [memory_index EXCEPT ![RaceAgent] =
                         ZAdd(@, c.memory_id, memory.created_at)]
                 ELSE memory_index
            /\ memory_importance' =
                 IF call = "zadd_importance"
                 THEN [memory_importance EXCEPT ![RaceAgent] =
                         ZAdd(@, c.memory_id, memory.importance)]
                 ELSE memory_importance
            /\ UNCHANGED <<memory_cache, failures>>
      /\ UNCHANGED <<redis_client, inproc, used, now, dispatch, agent_vars,
                     backend_vars>>

\* delete_memory is called with an id a store has returned; without a Redis
\* client the whole call is _delete_from_memory
CallDeleteMemory(p) ==
  \E memory_id \in ReturnedIds :
    LET fallback == _delete_from_memory(memory_cache, RaceAgent, memory_id)
        c == [NoCall EXCEPT !.op = "delete_memory", !.pc = 1,
                !.memory_id = memory_id, !.returned = ~redis_client,
                !.result = fallback[2]]
    IN  /\ Begin(p, c)
        /\ memory_cache' = IF redis_client THEN memory_cache ELSE fallback[1]
        /\ UNCHANGED <<redis_client, rdb, memory_index, memory_importance,
                       inproc, used, now, failures, dispatch, agent_vars,
                       backend_vars>>

\* a step of delete_memory: line 369, 372 or 373 (with lines 378-381 after
\* it), or the except branch
StepDeleteMemory(p) ==
  LET c        == pending[p]
      call     == DeleteCalls[c.pc]
      last     == c.pc = Len(DeleteCalls)
      fallback == _delete_from_memory(memory_cache, RaceAgent, c.memory_id)
  IN  /\ p \in InFlight
      /\ c.op = "delete_memory"
      /\ \/ /\ Failed(p, fallback[2])
            /\ memory_cache' = fallback[1]
            /\ UNCHANGED <<rdb, memory_index, memory_importance>>
         \/ /\ Proceed(p, last, TRUE)
            /\ rdb' = IF call = "delete"
                      THEN [rdb EXCEPT ![RaceAgent] = RDel(@, c.memory_id)]
                      ELSE rdb
            /\ memory_index' =
                 IF call = "zrem_index"
                 THEN [memory_index EXCEPT ![RaceAgent] = ZRem(@, c.memory_id)]
                 ELSE memory_index
            /\ memory_importance' =
                 IF call = "zrem_importance"
                 THEN [memory_importance EXCEPT
                         ![RaceAgent] = ZRem(@, c.memory_id)]
                 ELSE memory_importance
            /\ memory_cache' =
                 IF last /\ InCache(memory_cache, RaceAgent, c.memory_id)
                 THEN DelEntry(memory_cache, RaceAgent, c.memory_id)
                 ELSE memory_cache
            /\ UNCHANGED failures
      /\ UNCHANGED <<redis_client, inproc, used, now, dispatch, agent_vars,
                     backend_vars>>

\* update_memory_importance is called with an id a store has returned;
\* without a Redis client the whole call is _update_importance_in_memory
CallUpdateMemoryImportance(p) ==
  \E memory_id \in ReturnedIds, importance \in Importances :
    LET fallback == _update_importance_in_memory(memory_cache, RaceAgent,
                                                 memory_id, importance)
        c == [NoCall EXCEPT !.op = "update_memory_importance", !.pc = 1,
                !.memory_id = memory_id, !.importance = importance,
                !.returned = ~redis_client, !.result = fallback[2]]
    IN  /\ Begin(p, c)
        /\ memory_cache' = IF redis_client THEN memory_cache ELSE fallback[1]
        /\ UNCHANGED <<redis_client, rdb, memory_index, memory_importance,
                       inproc, used, now, failures, dispatch, agent_vars,
                       backend_vars>>

\* a step of update_memory_importance: the get of line 516 (with the
\* return of line 519 or the rewrite of lines 521-522), the set of line 525,
\* the zadd of lines 528-531 (with lines 536-539), or the except branch
StepUpdateMemoryImportance(p) ==
  LET c        == pending[p]
      call     == UpdateCalls[c.pc]
      found    == c.memory_id \in DOMAIN rdb[RaceAgent]
      missing  == call = "get" /\ ~found
      last     == c.pc = Len(UpdateCalls)
      fallback == _update_importance_in_memory(memory_cache, RaceAgent,
                                               c.memory_id, c.importance)
  IN  /\ p \in InFlight
      /\ c.op = "update_memory_importance"
      /\ \/ /\ Failed(p, fallback[2])
            /\ memory_cache' = fallback[1]
            /\ UNCHANGED <<rdb, memory_importance>>
         \/ /\ pending' = [pending EXCEPT ![p] =
                 IF missing \/ last
                 THEN [@ EXCEPT !.returned = TRUE, !.result = ~missing]
                 ELSE IF call = "get"
                      THEN [@ EXCEPT !.pc = @ + 1,
                              !.memory =
                                <<[JsonLoads(rdb[RaceAgent][c.memory_id].json)
                                     EXCEPT !.importance = c.importance]>>]
                      ELSE [@ EXCEPT !.pc = @ + 1]]
            /\ rdb' = IF call = "set"
                      THEN [rdb EXCEPT ![RaceAgent] =
                              RSet(@, c.memory_id, JsonDumps(c.memory[1]))]
                      ELSE rdb
            /\ memory_importance' =
                 IF call = "zadd_importance"
                 THEN [memory_importance EXCEPT
                         ![RaceAgent] = ZAdd(@, c.memory_id, c.importance)]
                 ELSE memory_importance
            /\ memory_cache' =
                 IF last /\ InCache(memory_cache, RaceAgent, c.memory_id)
                 THEN SetImportance(memory_cache, RaceAgent, c.memory_id,
                                    c.importance)
                 ELSE memory_cache
            /\ UNCHANGED failures
      /\ UNCHANGED <<redis_client, memory_index, inproc, used, now, dispatch,
                     agent_vars, backend_vars>>

\* clear_agent_memories is called; known: the ids stores had returned by
\* then; without a Redis client the whole call is _clear_memory_cache
CallClearAgentMemories(p) ==
  LET fallback == _clear_memory_cache(memory_cache, RaceAgent)
      c == [NoCall EXCEPT !.op = "clear_agent_memories", !.pc = 1,
              !.known = ReturnedIds, !.returned = ~redis_client,
              !.result = fallback[2]]
  IN  /\ Begin(p, c)
      /\ memory_cache' = IF redis_client THEN memory_cache ELSE fallback[1]
      /\ UNCHANGED <<redis_client, rdb, memory_index, memory_importance,
                     inproc, used, now, failures, dispatch, agent_vars,
                     backend_vars>>

\* a step of clear_agent_memories: the zrange of lines 423-427, the delete
\* of line 432 for the next id, the delete of line 435, the delete of line
\* 436 (with lines 441-444), or the except branch
StepClearAgentMemories(p) ==
  LET c        == pending[p]
      n        == Len(c.memory_ids)
      last     == c.pc = n + 3
      fallback == _clear_memory_cache(memory_cache, RaceAgent)
  IN  /\ p \in InFlight
      /\ c.op = "clear_agent_memories"
      /\ \/ /\ Failed(p, fallback[2])
            /\ memory_cache' = fallback[1]
            /\ UNCHANGED <<rdb, memory_index, memory_importance>>
         \/ /\ pending' = [pending EXCEPT ![p] =
                 IF last THEN [@ EXCEPT !.returned = TRUE, !.result = TRUE]
                 ELSE IF c.pc = 1
                      THEN [@ EXCEPT !.pc = 2,
                              !.memory_ids =
                                ZRange(memory_index[RaceAgent], 0, -1)]
                      ELSE [@ EXCEPT !.pc = @ + 1]]
            /\ rdb' = IF 1 < c.pc /\ c.pc <= n + 1
                      THEN [rdb EXCEPT ![RaceAgent] =
                              RDel(@, c.memory_ids[c.pc - 1])]
                      ELSE rdb
            /\ memory_index' =
                 IF c.pc > 1 /\ c.pc = n + 2
                 THEN [memory_index EXCEPT ![RaceAgent] = EmptyZ]
                 ELSE memory_index
            /\ memory_importance' =
                 IF c.pc > 1 /\ last
                 THEN [memory_importance EXCEPT ![RaceAgent] = EmptyZ]
                 ELSE memory_importance
            /\ memory_cache' =
                 IF c.pc > 1 /\ last /\ RaceAgent \in DOMAIN memory_cache
                 THEN DelBucket(memory_cache, RaceAgent)
                 ELSE memory_cache
            /\ UNCHANGED failures
      /\ UNCHANGED <<redis_client, inproc, used, now, dispatch, agent_vars,
                     backend_vars>>

\* MemoryService.__init__, and requests that have not called yet
InitConcurrent ==
  /\ redis_client \in BOOLEAN
  /\ rdb = [a \in Agents |-> [k \in {} |-> 0]]
  /\ memory_index = [a \in Agents |-> EmptyZ]
  /\ memory_importance = [a \in Agents |-> EmptyZ]
  /\ memory_cache = [a \in {} |-> <<>>]
  /\ inproc = [a \in {} |-> <<>>]
  /\ used = {}
  /\ now = 0
  /\ failures = 0
  /\ dispatch = <<>>
  /\ use_mock = TRUE
  /\ execution = <<>>
  /\ response = <<>>
  /\ extraction = <<>>
  /\ pending = [p \in Requests |-> NoCall]
  /\ redis_available = FALSE
  /\ short_memory = <<>>
  /\ supabase = <<>>

NextConcurrent ==
  \E p \in Requests :
    \/ CallStoreMemory(p)
    \/ StepStoreMemory(p)
    \/ CallDeleteMemory(p)
    \/ StepDeleteMemory(p)
    \/ CallUpdateMemoryImportance(p)
    \/ StepUpdateMemoryImportance(p)
    \/ CallClearAgentMemories(p)
    \/ StepClearAgentMemories(p)

\* -------------------------------------- backend: short-term memory
\* settings.AGENT_SHORT_TERM_MEMORY_LIMIT: 100 in config.py, taken small
\* here so that lists grow beyond it
AGENT_SHORT_TERM_MEMORY_LIMIT == 2
\* the number of store_short_term_memory calls of a run
MaxItems == 4

ItemIds == 1..MaxItems
ShortAgents == {"a1"}
MemoryDatas == {"{}", "{\"message\": \"hi\"}"}

\* Redis LPUSH, LTRIM and LRANGE on a list
LPush(list, item) == <<item>> \o list
LTrim(list, start, stop) == RangeOf(list, start, stop)
LRange(list, start, stop) == RangeOf(list, start, stop)

\* the Redis calls of store_short_term_memory, in order
ShortTermCalls == <<"lpush", "ltrim", "expire">>

\* MemoryService.store_short_term_memory of the backend; failAt: the Redis
\* call that raises (0: none). The list's expiry after a day without a
\* store and a failing Supabase insert are left out.
store_short_term_memory(agent_id, memory_data, item_id, failAt) ==
  LET memory_item == [id |-> item_id, timestamp |-> now, data |-> memory_data]
      pushed  == IF Done(ShortTermCalls, failAt, "lpush")
                 THEN LPush(short_memory[agent_id], JsonDumps(memory_item))
                 ELSE short_memory[agent_id]
      trimmed == IF Done(ShortTermCalls, failAt, "ltrim")
                 THEN LTrim(pushed, 0, AGENT_SHORT_TERM_MEMORY_LIMIT - 1)
                 ELSE pushed
      row     == [id |-> memory_item.id, agent_id |-> agent_id,
                  user_id |-> "dev-user", content |-> JsonDumps(memory_data),
                  memory_type |-> "interaction",
                  metadata |-> "short_term_fallback",
                  created_at |-> memory_item.timestamp]
  IN
  /\ item_id \in ItemIds \ used
  /\ \A i \in ItemIds \ used : item_id <= i
  /\ failAt # 0 => failures < MaxFailures
  /\ failAt \in 0..(IF redis_available THEN Len(ShortTermCalls) ELSE 0)
  /\ used' = used \cup {item_id}
  /\ short_memory' = IF redis_available
                     THEN [short_memory EXCEPT ![agent_id] = trimmed]
                     ELSE short_memory
  /\ supabase' = IF redis_available /\ failAt = 0 THEN supabase
                 ELSE Append(supabase, row)
  /\ failures' = failures + (IF failAt # 0 THEN 1 ELSE 0)
  /\ UNCHANGED <<redis_available, redis_client, rdb, memory_index,
                 memory_importance, memory_cache, inproc, now, dispatch,
                 agent_vars, pending>>

StoreShortTermMemory ==
  \E agent_id \in ShortAgents, memory_data \in MemoryDatas,
     item_id \in ItemIds, failAt \in 0..3 :
    store_short_term_memory(agent_id, memory_data, item_id, failAt)

\* the answers the table can give to
\* select("*").eq("agent_id", agent_id).order("created_at", desc=True)
\* .limit(limit): rows of one created_at come in any order
SelectMemories(agent_id, limit) ==
  LET rows   == {i \in 1..Len(supabase) : supabase[i].agent_id = agent_id}
      n      == Cardinality(rows)
      orders == {s \in [1..n -> rows] :
                   /\ \A i, j \in 1..n : i # j => s[i] # s[j]
                   /\ \A i, j \in 1..n :
                        i < j => supabase[s[i]].created_at
                                   >= supabase[s[j]].created_at}
  IN  {SliceTo([i \in 1..n |-> supabase[s[i]]], limit) : s \in orders}

\* MemoryService.get_short_term_memory of the backend: the lists it can
\* return; fail: the lrange raises
get_short_term_memory(agent_id, limit, fail) ==
  IF redis_available /\ ~fail
  THEN LET memories == LRange(short_memory[agent_id], 0, limit - 1)
       IN  {[i \in 1..Len(memories) |-> JsonLoads(memories[i])]}
  ELSE {[i \in 1..Len(rows) |->
           [id |-> rows[i].id, timestamp |-> rows[i].created_at,
            data |-> JsonLoads(rows[i].content)]] :
          rows \in SelectMemories(agent_id, limit)}

GetShortTermMemory ==
  \E agent_id \in ShortAgents, limit \in 0..MaxItems, fail \in BOOLEAN :
    /\ fail => redis_available
    /\ get_short_term_memory(agent_id, limit, fail) # {}
    /\ UNCHANGED vars

\* MemoryService.initialize of the backend, with Redis available or not
InitShortTerm ==
  /\ redis_available \in BOOLEAN
  /\ short_memory = [a \in ShortAgents |-> <<>>]
  /\ supabase = <<>>
  /\ used = {}
  /\ now = 0
  /\ failures = 0
  /\ redis_client = FALSE
  /\ rdb = [a \in Agents |-> [k \in {} |-> 0]]
  /\ memory_index = [a \in Agents |-> EmptyZ]
  /\ memory_importance = [a \in Agents |-> EmptyZ]
  /\ memory_cache = [a \in {} |-> <<>>]
  /\ inproc = [a \in {} |-> <<>>]
  /\ dispatch = <<>>
  /\ use_mock = TRUE
  /\ execution = <<>>
  /\ response = <<>>
  /\ extraction = <<>>
  /\ pending = <<>>

NextShortTerm ==
  \/ StoreShortTermMemory
  \/ GetShortTermMemory
  \/ Tick

\* ------------------------------------------- importance, as callers give it
\* store_memory and update_memory_importance take any float: tenths within
\* [0,1], and one value on either side of it
AnyImportances == Importances \cup {-1, 15}

StoreWithImportance(importance) ==
  \E metadata \in Metadatas, memory_id \in MemIds, failAt \in 0..3 :
    store_memory("a1", <<"b">>, "interaction", metadata, importance, NoneVal,
                 0, memory_id, failAt)

UpdateWithImportance(importance) ==
  \E memory_id \in MemIds, failAt \in 0..3 :
    update_memory_importance("a1", memory_id, importance, failAt)

NextImportance ==
  \E importance \in AnyImportances :
    StoreWithImportance(importance) \/ UpdateWithImportance(importance)

Next ==
  \/ StoreMemory
  \/ DeleteMemory
  \/ ClearAgentMemories
  \/ UpdateMemoryImportance
  \/ RetrieveRecentMemories
  \/ RetrieveImportantMemories
  \/ SearchMemories
  \/ GetMemory
  \/ KeyExpires
  \/ Tick

Spec == Init /\ [][Next]_vars

\* requests to the dispatcher only
SpecDispatch == Init /\ [][ExecuteAgent]_vars

\* the memory contexts of the executors, for any fetched lists
SpecContext == Init /\ [][NextContext]_vars

\* the agent manager behind its endpoint
SpecAgents == InitAgents /\ [][NextAgents]_vars

\* calls of extract_keywords only
SpecKeywords == Init /\ [][ExtractKeywords]_vars

\* the MemoryService called with importances of any size
SpecImportance == Init /\ [][NextImportance]_vars

\* the MemoryService under concurrent requests
SpecConcurrent == InitConcurrent /\ [][NextConcurrent]_vars

\* the backend's short-term memory
SpecShortTerm == InitShortTerm /\ [][NextShortTerm]_vars

\* ===================================================== properties
\* ids and entries of one agent's bucket in an in-process map
IdsOf(bucket) == {bucket[i].id : i \in 1..Len(bucket)}
CacheIds(cache, agent_id) ==
  IF agent_id \in DOMAIN cache THEN IdsOf(cache[agent_id]) ELSE {}
CacheEntry(cache, agent_id, memory_id) ==
  cache[agent_id][PosOf(cache[agent_id], memory_id)]

\* a read may be told to fail only where there is a Redis client to fail
ReadFails == {f \in BOOLEAN : f => redis_client}

\* C1: a store_memory call in which a tier-1 call (set, expire, either zadd)
\* raises still returns: the step completes, the id it returns was held by
\* no tier before, and afterwards the in-process map holds, under that agent
\* and id, the whole record built from the call's arguments.
C1_StoreFallsBackToCache ==
  [][(used' # used /\ failures' # failures) =>
       \A agent_id \in Agents, content \in Contents,
          memory_type \in MemoryTypes, metadata \in Metadatas,
          importance \in Importances, user_id \in UserIds,
          expiration \in Expirations, memory_id \in MemIds, failAt \in 1..4 :
         store_memory(agent_id, content, memory_type, metadata, importance,
                      user_id, expiration, memory_id, failAt) =>
           /\ \A a \in Agents :
                /\ memory_id \notin DOMAIN rdb[a]
                /\ memory_id \notin CacheIds(memory_cache, a)
           /\ InCache(memory_cache', agent_id, memory_id)
           /\ CacheEntry(memory_cache', agent_id, memory_id) =
                [id |-> memory_id, agent_id |-> agent_id, content |-> content,
                 type |-> memory_type,
                 metadata |-> IF metadata = NoneVal THEN EmptyDict
                              ELSE metadata,
                 importance |-> importance, created_at |-> now,
                 user_id |-> user_id]]_vars

\* C1 witness: with a Redis client, a store whose tier-1 write raised has left
\* its record in the in-process map
C1_Witness ==
  /\ redis_client
  /\ failures > 0
  /\ \E a \in DOMAIN memory_cache : memory_cache[a] # <<>>

\* the records an agent has, in either tier
Tier1Records(a) == {JsonLoads(rdb[a][m].json) : m \in DOMAIN rdb[a]}
Tier3Records(a) ==
  IF a \in DOMAIN memory_cache
  THEN {memory_cache[a][i] : i \in 1..Len(memory_cache[a])}
  ELSE {}
AgentRecords(a) == Tier1Records(a) \cup Tier3Records(a)
ResultIds(result) == {result[i].id : i \in 1..Len(result)}

\* every id handed out is still held by the in-process-only service: no
\* record was deleted or cleared
NothingRemoved ==
  \A m \in used : \E a \in Agents : m \in CacheIds(inproc, a)

\* no key has run out of its TTL
NothingExpired ==
  redis_client /\ failures = 0 =>
    \A a \in Agents : CacheIds(inproc, a) = DOMAIN rdb[a]

\* C2: whatever tier-1 calls fail, each retrieval returns the same records
\* in the same order as an in-process-only MemoryService given the same
\* calls (stated while no record has been removed or has expired).
C2_SameAsInProcessOnly ==
  (NothingRemoved /\ NothingExpired) =>
    \A a \in Agents, n \in Limits, fail \in ReadFails :
      /\ retrieve_recent_memories(a, n, fail) =
           _retrieve_from_memory(inproc, a, "timestamp", n)
      /\ retrieve_important_memories(a, n, fail) =
           _retrieve_from_memory(inproc, a, "importance", n)
      /\ \A q \in Queries :
           search_memories(a, q, n, fail) =
             _search_in_memory(inproc, a, Lower(q), n)

\* the agent's records in the order they were stored, latest first
LatestFirst(a) == IF a \in DOMAIN inproc THEN Reverse(inproc[a]) ELSE <<>>

\* C3: after stores only (nothing removed, nothing expired, no tier-1
\* failure), retrieve_recent_memories(a, n) returns the n records created
\* last, the newest first, records of one second in the order of their
\* insertion: after three stores, n = 2 gives the 3rd then the 2nd.
C3_RecentIsLatestFirst ==
  (failures = 0 /\ NothingRemoved /\ NothingExpired) =>
    \A a \in Agents, n \in Limits \ {0} :
      retrieve_recent_memories(a, n, FALSE) = SliceTo(LatestFirst(a), n)

\* C4: for every limit n >= 0, in the tier-1 path and in the tier-3 path,
\* retrieve_recent_memories and retrieve_important_memories return at most n
\* records and at most as many as the agent has.
C4_AtMostLimit ==
  \A a \in Agents, n \in Limits, fail \in ReadFails :
    /\ Len(retrieve_recent_memories(a, n, fail)) <= n
    /\ Len(retrieve_important_memories(a, n, fail)) <= n
    /\ Len(retrieve_recent_memories(a, n, fail))
         <= Cardinality(AgentRecords(a))
    /\ Len(retrieve_important_memories(a, n, fail))
         <= Cardinality(AgentRecords(a))

\* C5: in every reachable state the records retrieve_important_memories
\* returns are in non-increasing order of their own importance field, and the
\* first has the greatest importance of all the agent's records.
C5_ImportantIsOrdered ==
  \A a \in Agents, n \in Limits, fail \in ReadFails :
    LET r == retrieve_important_memories(a, n, fail)
    IN  /\ \A i \in 1..(Len(r) - 1) : r[i].importance >= r[i + 1].importance
        /\ r # <<>> =>
             \A memory \in AgentRecords(a) :
               memory.importance <= r[1].importance

\* content contains q when the case of letters is ignored
ContainsIgnoringCase(content, q) ==
  \E i \in 0..(Len(content) - Len(q)) :
    \A j \in 1..Len(q) : UpperChar(content[i + j]) = UpperChar(q[j])

\* the records the serving tier holds for the agent: tier 1 when there is a
\* Redis client and no call of the read raises, else the in-process map
ServingRecords(a, fail) ==
  IF redis_client /\ ~fail THEN Tier1Records(a) ELSE Tier3Records(a)

C7_DeletedIsGone ==
  [][\A a \in Agents, m \in MemIds, failAt \in 0..3 :
       delete_memory(a, m, failAt) =>
         \A fail \in ReadFails, n \in Limits, q \in Queries :
           /\ get_memory(a, m, fail)' = <<>>
           /\ m \notin ResultIds(retrieve_recent_memories(a, n, fail))'
           /\ m \notin ResultIds(retrieve_important_memories(a, n, fail))'
           /\ m \notin ResultIds(search_memories(a, q, n, fail))']_vars

\* C8: once clear_agent_memories(a) has returned, every retrieval for a
\* returns the empty sequence, also when a tier-1 call of the clear failed.
C8_ClearedIsEmpty ==
  [][\A a \in Agents, failAt \in 0..(MaxMem + 3) :
       clear_agent_memories(a, failAt) =>
         \A fail \in ReadFails, n \in Limits, q \in Queries :
           /\ retrieve_recent_memories(a, n, fail)' = <<>>
           /\ retrieve_important_memories(a, n, fail)' = <<>>
           /\ search_memories(a, q, n, fail)' = <<>>]_vars

\* sub occurs in s, by comparing the pieces of s with sub
HasSub(s, sub) ==
  \E i \in 1..(Len(s) - Len(sub) + 1) : SubSeq(s, i, i + Len(sub) - 1) = sub

\* the claimed priority order: the archetype's executor and the substrings
\* that select it
DispatchOrder ==
  << [executor |-> "_execute_seo_agent", subs |-> {S_seo}],
     [executor |-> "_execute_business_agent", subs |-> {S_business, S_analyst}],
     [executor |-> "_execute_customer_support_agent",
      subs |-> {S_support, S_customer}],
     [executor |-> "_execute_data_science_agent", subs |-> {S_data}] >>

Selects(k, agent_id) == \E sub \in DispatchOrder[k].subs : HasSub(agent_id, sub)

FirstMatch(agent_id) ==
  IF \E k \in 1..Len(DispatchOrder) : Selects(k, agent_id)
  THEN DispatchOrder[CHOOSE k \in 1..Len(DispatchOrder) :
                       /\ Selects(k, agent_id)
                       /\ \A j \in 1..(k - 1) : ~Selects(j, agent_id)].executor
  ELSE IF agent_id = S_agent_simulator THEN "_execute_simulation_agent"
  ELSE "_execute_generic_agent"

\* C9: every agent id is dispatched to exactly one of the six archetypes, the
\* first that matches in the order SEO, business, support, data-science,
\* the id "agent-simulator", generic; the archetype depends on the id alone.
\* An id with both "support" and "data" goes to support,
\* "business_data_analyst" to business, unknown and empty ids to generic.
C9_FirstMatchWins ==
  dispatch # <<>> =>
    LET d == dispatch[1]
    IN  /\ d.executor \in
             {"_execute_seo_agent", "_execute_business_agent",
              "_execute_customer_support_agent", "_execute_data_science_agent",
              "_execute_simulation_agent", "_execute_generic_agent"}
        /\ d.executor = FirstMatch(d.agent_id)
        /\ d.agent_id \in {Id_support_data_1, Id_data_support} =>
             d.executor = "_execute_customer_support_agent"
        /\ d.agent_id = Id_business_data_analyst =>
             d.executor = "_execute_business_agent"
        /\ d.agent_id = Id_seo_writer_1 => d.executor = "_execute_seo_agent"
        /\ d.agent_id = Id_agent_simulator =>
             d.executor = "_execute_simulation_agent"
        /\ d.agent_id \in {Id_empty, Id_helper_bot} =>
             d.executor = "_execute_generic_agent"

\* C9 witness: a request whose id has "data" before "support" was dispatched
\* to the support archetype
C9_Witness ==
  /\ dispatch # <<>>
  /\ dispatch[1].agent_id = Id_data_support
  /\ dispatch[1].executor = "_execute_customer_support_agent"

\* the names of the six archetypes
ArchetypeName(executor) ==
  CASE executor = "_execute_seo_agent" -> S_seo
    [] executor = "_execute_business_agent" -> S_business
    [] executor = "_execute_customer_support_agent" -> S_support
    [] executor = "_execute_data_science_agent" -> S_data
    [] executor = "_execute_simulation_agent" ->
         <<"s", "i", "m", "u", "l", "a", "t", "i", "o", "n">>
    [] OTHER -> S_generic

\* C10: the persona config takes name, memory and voice from the context
\* when the context has them; otherwise the name is "{Archetype} Agent" for
\* the archetype the id was dispatched to, memory is True and voice is False.
C10_PersonaDefaults ==
  dispatch # <<>> =>
    LET d == dispatch[1]
    IN  /\ d.agent_config.name =
             IF "agent_name" \in DOMAIN d.context THEN d.context["agent_name"]
             ELSE Capitalize(ArchetypeName(d.executor)) \o S_Agent
        /\ d.agent_config.memory =
             IF "memory_enabled" \in DOMAIN d.context
             THEN d.context["memory_enabled"] ELSE TRUE
        /\ d.agent_config.voice =
             IF "voice_enabled" \in DOMAIN d.context
             THEN d.context["voice_enabled"] ELSE FALSE

\* the tier-1 record of memory m, when there is one, carries the importance
\* that is m's score in the importance index
IndexAgrees(a, m) ==
  m \in DOMAIN rdb[a] =>
    /\ m \in DOMAIN memory_importance[a]
    /\ memory_importance[a][m] = JsonLoads(rdb[a][m].json).importance

\* C20: update_memory_importance is atomic for its caller: when the record
\* and the importance index agreed before the call, they agree once the call
\* has returned, whether it returned True or False and whether or not a
\* tier-1 call raised between the rewrite of the record and the update of
\* the index.
C20_UpdateIsAtomic ==
  [][\A a \in Agents, m \in MemIds, importance \in Importances,
        failAt \in 0..3 :
       (IndexAgrees(a, m) /\ update_memory_importance(a, m, importance, failAt))
         => IndexAgrees(a, m)']_vars

\* the elements of a list
Range(s) == {s[i] : i \in 1..Len(s)}

\* the place of the first occurrence of w in the list s
FirstAt(s, w) == CHOOSE i \in 1..Len(s) : s[i] = w /\ \A j \in 1..(i - 1) : s[j] # w

\* C18: extract_keywords returns at most 10 tokens, all different, each a
\* token of the text, lowercased and stripped of punctuation at its ends,
\* longer than 2 and no stop word; they are in non-increasing order of their
\* frequency among the kept tokens, and a kept token is left out only when
\* 10 tokens at least as frequent are returned.
C18_KeywordsRanked ==
  extraction # <<>> =>
    LET r  == extraction[1].keywords
        kw == Keywords(extraction[1].text)
    IN  /\ Len(r) <= 10
        /\ \A i, j \in 1..Len(r) : i # j => r[i] # r[j]
        /\ \A i \in 1..Len(r) :
             /\ Len(r[i]) > 2
             /\ r[i] \notin common_words
             /\ r[i] = Lower(r[i])
             /\ r[i][1] \notin StripChars
             /\ r[i][Len(r[i])] \notin StripChars
             /\ Count(kw, r[i]) > 0
        /\ \A i \in 1..(Len(r) - 1) : Count(kw, r[i]) >= Count(kw, r[i + 1])
        /\ \A w \in Range(kw) \ Range(r) :
             /\ Len(r) = 10
             /\ \A i \in 1..Len(r) : Count(kw, r[i]) >= Count(kw, w)

\* C18 witness: a text with a stop word or a short token and more than ten
\* different keywords, of which the ten returned start with one that occurs
\* more often than the last
C18_Witness ==
  /\ extraction # <<>>
  /\ LET r  == extraction[1].keywords
         kw == Keywords(extraction[1].text)
     IN  /\ Len(r) = 10
         /\ Cardinality(Range(kw)) > 10
         /\ Len(Split(extraction[1].text)) > Len(kw)
         /\ Count(kw, r[1]) > Count(kw, r[10])

\* C19: extract_keywords is deterministic: the list it returns is fixed by
\* the text, tokens of equal frequency being in the order of their first
\* occurrence in the text.
C19_TiesInFirstOccurrenceOrder ==
  extraction # <<>> =>
    LET r  == extraction[1].keywords
        kw == Keywords(extraction[1].text)
    IN  /\ r = extract_keywords(extraction[1].text, FirstSeen(kw))
        /\ \A i, j \in 1..Len(r) :
             (i < j /\ Count(kw, r[i]) = Count(kw, r[j])) =>
               FirstAt(kw, r[i]) < FirstAt(kw, r[j])

\* the ids of a list of records, in its order
Ids(memories) == [i \in 1..Len(memories) |-> memories[i].id]

\* C11: for the specialized archetypes the memory context is the stable
\* union of the recent list, then the important list, then the search
\* results, keyed by record id and keeping first-seen order: no id is in the
\* merged list twice, whatever the three lists have in common.
C11_StableUnion ==
  (execution # <<>> /\ execution[1].executor # "_execute_generic_agent") =>
    LET e == execution[1]
    IN  /\ Ids(e.memories) =
             FirstSeen(Ids(e.recent) \o Ids(e.important) \o Ids(e.search))
        /\ \A i, j \in 1..Len(e.memories) :
             i # j => e.memories[i].id # e.memories[j].id

\* C12: for the generic archetype the memory context is made of up to 5
\* recent and up to 3 important records: it starts with the recent list in
\* its order, goes on with the important records whose id is not in it, has
\* no id twice and at most 8 entries.
C12_GenericMerge ==
  (execution # <<>> /\ execution[1].executor = "_execute_generic_agent") =>
    LET e == execution[1]
        m == e.memories
    IN  /\ Len(e.recent) <= 5
        /\ Len(e.important) <= 3
        /\ Len(m) <= 8
        /\ SubSeq(m, 1, Len(e.recent)) = e.recent
        /\ SubSeq(m, Len(e.recent) + 1, Len(m)) =
             SelectSeq(e.important,
                       LAMBDA memory : memory.id \notin IdSet(e.recent))
        /\ \A i, j \in 1..Len(m) : i # j => m[i].id # m[j].id

\* C12 witness: a generic context of 8 entries, and one in which an
\* important record that is also a recent one was left out
C12_Witness ==
  /\ execution # <<>>
  /\ execution[1].executor = "_execute_generic_agent"
  /\ Len(execution[1].important) = 3
  /\ \/ Len(execution[1].memories) = 8
     \/ /\ Len(execution[1].recent) = 5
        /\ Len(execution[1].memories) = 6

\* C13: each archetype asks for its generation at a fixed temperature
\* (in tenths): generic 0.7, SEO 0.5, business 0.3, customer support 0.6,
\* data science 0.3, simulation 0.6, whatever the input, the context, the
\* memories and the provider's answer.
C13_FixedTemperatures ==
  execution # <<>> =>
    LET e == execution[1]
    IN  e.temperature =
          CASE e.executor = "_execute_generic_agent" -> 7
            [] e.executor = "_execute_seo_agent" -> 5
            [] e.executor = "_execute_business_agent" -> 3
            [] e.executor = "_execute_customer_support_agent" -> 6
            [] e.executor = "_execute_data_science_agent" -> 3
            [] e.executor = "_execute_simulation_agent" -> 6

\* C13 witness: a business execution that found a memory of the agent and
\* asked the provider
C13_Witness ==
  /\ execution # <<>>
  /\ execution[1].executor = "_execute_business_agent"
  /\ execution[1].memories # <<>>
  /\ execution[1].reply.kind = "response"

\* the execution that a step has just made
Executed == execution' # <<>> /\ execution' # execution

\* C14: an execution with memory stores exactly one new record, of the
\* executing agent and with the importance (in hundredths) of its archetype:
\* generic 0.7, SEO 0.8, business 0.9, customer support 0.75, data science
\* 0.85; the record's score in the importance index, when it was written, is
\* that importance; a simulation execution stores nothing.
C14_OneRecordPerExecution ==
  [][Executed =>
       \A a \in ExecAgentIds : a = execution'[1].agent_id =>
       LET e   == execution'[1]
           new == AgentRecords(a)' \ AgentRecords(a)
       IN  /\ \A b \in ExecAgentIds \ {a} : AgentRecords(b)' = AgentRecords(b)
           /\ e.executor = "_execute_simulation_agent" =>
                /\ new = {}
                /\ used' = used
           /\ (e.memory /\ e.executor # "_execute_simulation_agent") =>
                \E memory \in new :
                  /\ new = {memory}
                  /\ used' = used \cup {memory.id}
                  /\ memory.id \notin used
                  /\ memory.agent_id = a
                  /\ memory.importance =
                       CASE e.executor = "_execute_generic_agent" -> 70
                         [] e.executor = "_execute_seo_agent" -> 80
                         [] e.executor = "_execute_business_agent" -> 90
                         [] e.executor = "_execute_customer_support_agent"
                              -> 75
                         [] e.executor = "_execute_data_science_agent" -> 85
                  /\ memory.id \in DOMAIN memory_importance'[a] =>
                       memory_importance'[a][memory.id] = memory.importance
    ]_vars

\* C14 witness: a customer-support execution with memory has stored its
\* conversation next to an older one, in Redis
C14_Witness ==
  /\ execution # <<>>
  /\ execution[1].executor = "_execute_customer_support_agent"
  /\ execution[1].memories # <<>>
  /\ execution[1].stored # <<>>
  /\ execution[1].stored[1] \in DOMAIN rdb[execution[1].agent_id]
  /\ Cardinality(used) = 2

\* the provider did not answer the request with a generation: the post
\* raised, the status was not 200, or the payload was malformed
ProviderFailed(e) ==
  /\ e.reply.kind # "not asked"
  /\ \/ e.reply.kind = "raises"
     \/ e.reply.status_code # 200
     \/ e.reply.body = NoJson
     \/ "candidates" \notin DOMAIN e.reply.body
     \/ e.reply.body.candidates = <<>>

\* C15: memory is written only after a successful generation: an execution
\* whose provider call failed stores no record.
C15_NoRecordOnFailure ==
  [][(Executed /\ ProviderFailed(execution'[1])) =>
       /\ used' = used
       /\ \A a \in ExecAgentIds : AgentRecords(a)' = AgentRecords(a)
    ]_vars

\* C16: on a timeout, a non-2xx status or a malformed payload the text that
\* generate_content returns is the keyword-triggered mock reply to the
\* prompt.
C16_MockReplyOnFailure ==
  (execution # <<>> /\ ProviderFailed(execution[1])) =>
    execution[1].output =
      _generate_mock_response(execution[1].prompt, execution[1].executor)[1]

\* C17: POST /agent/{id}/execute always answers with status 'completed' and
\* never with a 500.
C17_AlwaysCompleted ==
  response # <<>> =>
    /\ response[1].status_code # 500
    /\ response[1].status = "completed"

\* C21: a record is never partially written: once a store_memory call for
\* agent a has returned memory id m, m has a tier-1 record if and only if
\* it is in the timestamp index, and if and only if it is in the importance
\* index, also when a tier-1 call of that store raised part-way.
C21_StoredWhollyOrNotAtAll ==
  [][\A a \in Agents, m \in MemIds :
       (m \notin used /\ m \in used' /\ a \in DOMAIN inproc'
          /\ m \in IdsOf(inproc'[a]))
         => /\ m \in DOMAIN rdb'[a] <=> m \in DOMAIN memory_index'[a]
            /\ m \in DOMAIN rdb'[a] <=> m \in DOMAIN memory_importance'[a]]_vars

\* C23: retrieve_recent_memories(a, n) and retrieve_important_memories(a, n)
\* return fewer than n records only when the tier that serves the read holds
\* fewer than n records of agent a, and return nothing for an agent no tier
\* knows; stated for n >= 1 and while no tier-1 call has raised, so that
\* keys that ran out of their TTL are the only records missing from tier 1.
C23_FewerOnlyWhenFewerExist ==
  failures = 0 =>
    \A a \in Agents, n \in Limits \ {0}, fail \in ReadFails :
      LET recent    == retrieve_recent_memories(a, n, fail)
          important == retrieve_important_memories(a, n, fail)
          existing  == Cardinality(ServingRecords(a, fail))
      IN  /\ Len(recent) < n => existing < n
          /\ Len(important) < n => existing < n
          /\ (AgentRecords(a) = {} /\ DOMAIN memory_index[a] = {}
                /\ DOMAIN memory_importance[a] = {})
               => recent = <<>> /\ important = <<>>

\* importance is counted in tenths: the interval [0,1] is 0..10
InUnitInterval(importance) == 0 <= importance /\ importance <= 10

\* C24, as stated: every record the store holds, in tier 1 and in the
\* in-process map, and every score of an importance index is within [0,1],
\* after any sequence of store_memory and update_memory_importance calls.
C24_ImportanceInUnitInterval ==
  \A a \in Agents :
    /\ \A r \in AgentRecords(a) : InUnitInterval(r.importance)
    /\ \A m \in DOMAIN memory_importance[a] :
         InUnitInterval(memory_importance[a][m])

\* C24, amended: store_memory and update_memory_importance write the
\* importance they are given, unchanged; when all records and scores are
\* within [0,1], they still are after a call whose importance argument is
\* within [0,1], whichever tier-1 call of it raised.
C24_InRangeWhenGivenInRange ==
  [][\A importance \in AnyImportances :
       (/\ C24_ImportanceInUnitInterval
        /\ InUnitInterval(importance)
        /\ StoreWithImportance(importance) \/ UpdateWithImportance(importance))
         => C24_ImportanceInUnitInterval']_vars

\* all importances are within [0,1] after a store and an update that
\* rewrote the stored record: the record carries the new importance, its
\* score in the index is still the one the store gave it
C24_Witness ==
  /\ C24_ImportanceInUnitInterval
  /\ \E m \in DOMAIN rdb["a1"] \cap DOMAIN memory_importance["a1"] :
       JsonLoads(rdb["a1"][m].json).importance # memory_importance["a1"][m]

\* what the store holds for agent b: tier-1 records, both indices and the
\* agent's bucket of the in-process map
AgentState(b) ==
  <<rdb[b], memory_index[b], memory_importance[b],
    IF b \in DOMAIN memory_cache THEN <<memory_cache[b]>> ELSE <<>>>>

\* a store_memory, delete_memory, clear_agent_memories or
\* update_memory_importance call for agent a
WriteFor(a) ==
  \/ \E content \in Contents, metadata \in Metadatas,
        importance \in Importances, expiration \in Expirations,
        memory_id \in MemIds, failAt \in 0..4 :
       store_memory(a, content, "interaction", metadata, importance, NoneVal,
                    expiration, memory_id, failAt)
  \/ \E memory_id \in MemIds, failAt \in 0..3 :
       delete_memory(a, memory_id, failAt)
  \/ \E failAt \in 0..(MaxMem + 3) : clear_agent_memories(a, failAt)
  \/ \E memory_id \in MemIds, importance \in Importances, failAt \in 0..3 :
       update_memory_importance(a, memory_id, importance, failAt)

\* every record of the list belongs to agent a
AllOf(a, result) == \A i \in 1..Len(result) : result[i].agent_id = a

StoredAndKept(a, m) ==
  /\ m \in CacheIds(inproc, a)
  /\ m \in DOMAIN memory_index[a] \cup DOMAIN memory_importance[a]
       => m \in DOMAIN rdb[a]

\* C26: read-your-writes across tier changes: once store_memory has
\* returned m for agent a, and until m is deleted, cleared or expired, every
\* retrieve_recent_memories(a, n) with n at least the number of a's records
\* includes m, and get_memory(a, m) finds m, whether or not tier 1 was
\* available when m was stored and whether or not it is when m is read.
C26_ReadYourWrites ==
  \A a \in Agents, m \in MemIds :
    StoredAndKept(a, m) =>
      \A n \in Limits, fail \in ReadFails :
        n >= Cardinality(CacheIds(inproc, a)) =>
          /\ m \in ResultIds(retrieve_recent_memories(a, n, fail))
          /\ get_memory(a, m, fail) # <<>>

\* C28: the values returned mean the same in both tiers. Of the calls in
\* which no tier-1 call raises: clear_agent_memories(a) returns True for an
\* agent that has no memories (it has none after the call either), and the
\* clear-memory endpoint then answers success; delete_memory(a, m) returns
\* True only when m existed.
C28_ReturnValuesMeanTheSame ==
  \A a \in Agents :
    /\ (AgentRecords(a) = {} /\ DOMAIN memory_index[a] = {})
         => /\ clear_agent_memories_returns(a, 0)
            /\ clear_agent_memory(a, 0).success
    /\ \A m \in MemIds :
         delete_memory_returns(a, m, 0) => get_memory(a, m, FALSE) # <<>>

\* C29: an execution for an agent whose config has memory disabled (context
\* memory_enabled = False) makes no retrieval and no write, whatever the
\* archetype: it gathers no memories, stores nothing, leaves the records
\* and indices of both tiers as they were, and its prompt is the input
\* followed by an empty memory context.
C29_NoMemoryWhenDisabled ==
  [][(Executed /\ ~execution'[1].memory) =>
       LET e == execution'[1]
       IN  /\ e.recent = <<>> /\ e.important = <<>> /\ e.search = <<>>
           /\ e.memories = <<>>
           /\ e.stored = <<>>
           /\ UNCHANGED <<rdb, memory_index, memory_importance, memory_cache,
                          used>>
           /\ \E input_text \in InputTexts :
                e.prompt = IF e.executor = "_execute_simulation_agent"
                           THEN input_text
                           ELSE input_text \o <<"\n", "\n">>]_vars

\* a generic execution with memory disabled, for an agent of which the
\* store holds a record from an earlier execution
C29_Witness ==
  /\ execution # <<>>
  /\ ~execution[1].memory
  /\ execution[1].executor = "_execute_generic_agent"
  /\ AgentRecords(execution[1].agent_id) # {}

\* the ids of all items stored so far, the newest first: ids are handed
\* out in increasing order
StoredIds == [i \in 1..Cardinality(used) |-> Cardinality(used) + 1 - i]

\* C30: after any sequence of store_short_term_memory calls the Redis list
\* of the agent holds at most AGENT_SHORT_TERM_MEMORY_LIMIT items, and,
\* while Redis is available, get_short_term_memory(agent_id, n) returns the
\* min(n, count) items stored last, the newest first, also those that were
\* stored through the database fallback while a Redis call raised.
C30_ShortTermMemory ==
  \A a \in ShortAgents :
    /\ Len(short_memory[a]) <= AGENT_SHORT_TERM_MEMORY_LIMIT
    /\ redis_available =>
         \A n \in 1..AGENT_SHORT_TERM_MEMORY_LIMIT :
           \A result \in get_short_term_memory(a, n, FALSE) :
             Ids(result) = SliceTo(StoredIds, n)

\* the returned calls of one method
Returned(op) ==
  {q \in Requests : pending[q].op = op /\ pending[q].returned}

\* C22: store_memory calls for one agent that run concurrently, in any
\* interleaving of their Redis calls and fallback writes, each end with
\* their record stored: a call in which no Redis call raised has its record
\* under its id in tier 1 and its id in the timestamp index and in the
\* importance index with the scores of its record; a call that fell back,
\* or a service without Redis, has its record once in the in-process map.
\* No call loses or overwrites what another one wrote.
C22_ConcurrentStoresKeepBoth ==
  (\A q \in Requests : pending[q].op \in {"none", "store_memory"}) =>
    \A q \in Returned("store_memory") :
      LET m      == pending[q].memory_id
          memory == pending[q].memory[1]
      IN  IF redis_client /\ ~pending[q].failed
          THEN /\ m \in DOMAIN rdb[RaceAgent]
               /\ JsonLoads(rdb[RaceAgent][m].json) = memory
               /\ m \in DOMAIN memory_index[RaceAgent]
               /\ memory_index[RaceAgent][m] = memory.created_at
               /\ m \in DOMAIN memory_importance[RaceAgent]
               /\ memory_importance[RaceAgent][m] = memory.importance
          ELSE /\ RaceAgent \in DOMAIN memory_cache
               /\ Cardinality({i \in 1..Len(memory_cache[RaceAgent]) :
                                 memory_cache[RaceAgent][i].id = m}) = 1
               /\ CacheEntry(memory_cache, RaceAgent, m) = memory

\* two store_memory calls that overlapped have both returned, with both
\* ids in the two indices of tier 1
C22_Witness ==
  /\ \A q \in Requests : pending[q].op \in {"none", "store_memory"}
  /\ Cardinality({q \in Returned("store_memory") : pending[q].overlapped}) = 2
  /\ Cardinality(DOMAIN memory_index[RaceAgent]) = 2
  /\ Cardinality(DOMAIN memory_importance[RaceAgent]) = 2

\* C27: when delete_memory(a, m) or clear_agent_memories(a) runs
\* concurrently with update_memory_importance(a, m, x), in any interleaving
\* of their Redis calls, then once all calls have returned, m is fully
\* absent: no record in tier 1 or in the in-process map and no entry in
\* either index. Stated for runs in which no Redis call raised, for a
\* delete_memory of m and for a clear_agent_memories that began after the
\* store of m had returned.
C27_DeletedIsNotRecreated ==
  (InFlight = {} /\ failures = 0) =>
    \A m \in MemIds :
      (\/ \E q \in Returned("delete_memory") : pending[q].memory_id = m
       \/ \E q \in Returned("clear_agent_memories") : m \in pending[q].known)
        => /\ m \notin DOMAIN rdb[RaceAgent]
           /\ m \notin DOMAIN memory_index[RaceAgent]
           /\ m \notin DOMAIN memory_importance[RaceAgent]
           /\ ~InCache(memory_cache, RaceAgent, m)
====
